---- MODULE Spec2Model ----
(***************************************************************************)
(* Breeder worker of godon-breeders (linux_performance/breeder_worker.py): *)
(* the per-worker control loop, the guardrail check and the rollback state *)
(* machine kept in the study's user attribute rollback_state_target_{id}.  *)
(* Every access to the shared study (user attribute read, user attribute   *)
(* write, ask, tell) and every remote call is one atomic step of a worker, *)
(* so workers bound to the same study interleave at that granularity.      *)
(***************************************************************************)
EXTENDS Integers, Sequences, FiniteSets, TLC

\* ---------------------------------------------------------------- bounds
\* largest iterations.max of a modelled configuration
MaxIter == 5
\* largest rollback_strategies.<name>.consecutive_failures of a configuration
MaxThreshold == 2
\* iterations.max of the configurations that two workers run together
MaxIterShared == 3

\* ------------------------------------------------------------ vocabulary
Workers == {1, 2}
\* parameter assignments a suggestion can produce
Params == {"P1", "P2"}
\* dict.get(key, default)
Get(m, k, default) == IF k \in DOMAIN m THEN m[k] ELSE default

\* Python None (json null)
None == "None"
\* the empty parameter map {} that target_state=baseline restores
EmptyParams == "{}"
\* float('inf'), the penalty value
Inf == 99
\* finite objective measurements
ObjValues == {1}

VARIABLES
    cfg,        \* the breeder configuration (immutable to the workers)
    trials,     \* study.trials: the persisted trials, in trial-number order
    attr,       \* study.user_attrs[rollback_state_target_{target_id}]
    pc,         \* position of every worker
    rs,         \* local rollback_state dict of the handler being executed
                \* (NoAttr again once the handler has returned)
    params,     \* local variable params of run()
    trial,      \* local variable trial of run(): index into trials
    metrics,    \* local variable metrics of run(), kept until the tell that
                \* is its last reader in the iteration
    inExcept,   \* the worker is inside run()'s per-trial except handler
    rbResult,   \* local variable rollback_success of run()
    raised,     \* an exception is propagating out of run()
    trialCount, \* local variable trial_count of run()
    rollbackCount, \* metrics client: rollbacks_total{status} per worker
    restore,    \* local variable params_to_restore of _execute_rollback
    slept,      \* number of after.action=pause sleeps of the worker
    timeBound,  \* run()'s local name time is bound (line 978 has executed)
    workerStatus, \* metrics client: the label of the worker status gauge at 1
    pushed,     \* the worker status carried by the latest push attempt
    rbMark,     \* history: Len(trials) when a rollback last succeeded
    lastWrite,  \* history: the latest write of the rollback-state attribute
    call,       \* the latest application of one of the worker's functions to
                \* given arguments: its name, its arguments and its outcome
    studies,    \* the studies of the storage: (database, study name) -> the
                \* study's number of trials and its user attributes
    binder,     \* per worker: its configuration's breeder.uuid, run.parallel
                \* and target_id, its position in __init__, the study it is
                \* bound to and the rollback state it last loaded
    digest,     \* int(md5(worker_id).hexdigest(), 16) for every worker_id
    lastStored, \* history: target_id -> the rollback state last written for
                \* the target by any worker of the breeder
    store,      \* the trials of every study of the cooperation storage:
                \* study name -> the study's trials, oldest first
    listable,   \* the study object handed to the callback provides
                \* get_all_study_names
    cb,         \* per worker: the state of its cooperation callback
    recon,      \* the reconnaissance script: its position in main,
                \* _gather_single_metric and prometheus_query_with_retry, their
                \* locals, metric_data and the sleeps and queries made so far
    client      \* a BreederMetricsClient: its fields, the samples its
                \* registry holds, what the latest push returned, and the
                \* number of times the push gateway was contacted

\* the state of the worker loop
loopVars == <<cfg, trials, attr, pc, rs, params, trial, metrics, inExcept,
              rbResult, raised, trialCount, rollbackCount, restore, slept,
              timeBound, workerStatus, pushed, rbMark, lastWrite>>

\* the state of study binding
bindVars == <<studies, binder, digest, lastStored>>

\* the state of the cooperation callback
shareVars == <<store, listable, cb>>

\* the state outside the worker loop, the functions and study binding
sideVars == <<shareVars, recon, client>>

vars == <<loopVars, call, bindVars, sideVars>>

\* --------------------------------------------------------- configurations
TargetStates == {"previous", "best", "baseline"}
OnFailures == {"stop", "continue", "skip_target"}
AfterActions == {"pause", "continue", "stop"}

\* the configuration fields the worker loop reads: the target's
\* rollback.enabled, its strategy block, the number of guardrails and the
\* iteration criteria; a target without rollback names no strategy
RollbackConfigs ==
    [ rollback_enabled : {TRUE},
      threshold        : 1..MaxThreshold,
      target_state     : TargetStates,
      on_failure       : OnFailures,
      after_action     : AfterActions,
      guardrails       : 0..1,
      iter_min         : {0, 2},
      iter_max         : {MaxIter} ]

PlainConfigs ==
    [ rollback_enabled : {FALSE},
      threshold        : {1},
      target_state     : {"previous"},
      on_failure       : {"stop"},
      after_action     : {"continue"},
      guardrails       : 0..1,
      iter_min         : {0, 2},
      iter_max         : {MaxIter} ]

Configs == RollbackConfigs \cup PlainConfigs

\* ------------------------------------------------------------ study store
NoAttr == [state |-> "absent", consecutive_failures |-> 0,
           last_successful_params |-> None, version |-> 0]

InitialRollbackState ==
    [state |-> "normal", consecutive_failures |-> 0,
     last_successful_params |-> None, version |-> 0]

\* the trial study.ask() creates; apply is history: what the remote apply of
\* the trial's parameters did ("none" before it, then "ok" or "failed")
RunningTrial(w) ==
    [state |-> "running", params |-> None, value |-> 0, owner |-> w,
     apply |-> "none"]

\* a completed trial copied into the study before the worker started
SharedTrial ==
    [state |-> "complete", params |-> "P1", value |-> 2, owner |-> 0,
     apply |-> "ok"]

\* a trial an earlier run of the breeder told FAIL
FailedTrial ==
    [state |-> "failed", params |-> "P1", value |-> 0, owner |-> 0,
     apply |-> "ok"]

\* the study outlives the worker: what a worker finds when an earlier run
\* ended after k consecutive failed trials (no trial of its own succeeded)
PersistedTrials(k) == <<SharedTrial>> \o [i \in 1..k |-> FailedTrial]

PersistedState(k) ==
    IF k = 0 THEN NoAttr
    ELSE [state |-> "needs_rollback", consecutive_failures |-> k,
          last_successful_params |-> None, version |-> k]

CompleteIdx(ts) == {i \in 1..Len(ts) : ts[i].state = "complete"}

\* study.best_trials for one minimised objective: the completed trials of
\* least value, as the set of their indices
BestTrials(ts) ==
    {i \in CompleteIdx(ts) : \A j \in CompleteIdx(ts) : ts[i].value <= ts[j].value}

Min(S) == CHOOSE x \in S : \A y \in S : x <= y

\* study.best_trials[0]; only defined when BestTrials(ts) # {}
BestTrial0(ts) == ts[Min(BestTrials(ts))]

\* a local name that was never assigned (UnboundLocalError when read)
Unbound == "Unbound"

\* --------------------------------------------------- rollback state machine
\* _check_needs_rollback on a loaded rollback state
NeedsRollback(st, c) == st.consecutive_failures >= c.threshold

\* _update_rollback_state: the blob that is stored
UpdateRollbackState(st) == [st EXCEPT !.version = @ + 1]

\* _handle_guardrail_violation, first half: load and count the failure
CountFailure(st) == [st EXCEPT !.consecutive_failures = @ + 1]

\* _handle_guardrail_violation, second half: the state it chooses, from the
\* answer of _check_needs_rollback (which loads the stored blob again)
ViolationState(local, stored, c) ==
    [local EXCEPT !.state = IF NeedsRollback(stored, c) THEN "needs_rollback"
                            ELSE "normal"]

\* the success handler without the line that sets state back to normal
SuccessStateKeepsState(st, p) ==
    [st EXCEPT !.consecutive_failures = 0, !.last_successful_params = p]

\* _handle_successful_trial
SuccessState(st, p) ==
    [st EXCEPT !.consecutive_failures = 0, !.state = "normal",
               !.last_successful_params = p]

\* _execute_rollback: the parameters to restore (None: nothing to restore)
ParamsToRestore(st, ts, c) ==
    CASE c.target_state = "previous" -> st.last_successful_params
      [] c.target_state = "best"     -> BestTrial0(ts).params
      [] c.target_state = "baseline" -> EmptyParams

\* the completion without the counter reset
RollbackCompletedKeepsCount(st) == [st EXCEPT !.state = "completed"]

\* _execute_rollback, after the apply returned
RollbackCompletedState(st) ==
    [st EXCEPT !.state = "completed", !.consecutive_failures = 0]

\* a failure handling that also resets the counter
RollbackFailedResets(st, c) ==
    [st EXCEPT !.state = IF c.on_failure = "skip_target" THEN "skip_target"
                         ELSE "failed",
               !.consecutive_failures = 0]

\* _execute_rollback, after the apply raised
RollbackFailedState(st, c) ==
    [st EXCEPT !.state = IF c.on_failure = "skip_target" THEN "skip_target"
                         ELSE "failed"]

\* ------------------------------------------------------------- trial steps
\* _execute_trial: the penalty map, one +inf per objective and nothing else
PenaltyMetrics == [obj |-> Inf, guard |-> "missing"]

\* _execute_trial: the metric maps the effectuation flow can return
FlowMetrics(c) ==
    [obj : ObjValues,
     guard : IF c.guardrails > 0 THEN {"ok", "over"} ELSE {"missing"}]

\* _check_guardrails: violated?
CheckGuardrails(m, c) == c.guardrails > 0 /\ m.guard = "over"

\* _should_continue, timeUp standing for _check_time_budget or
\* _check_quality_thresholds answering true
ShouldContinue(ts, c, timeUp) ==
    IF Len(ts) < c.iter_min THEN TRUE
    ELSE IF Len(ts) >= c.iter_max THEN FALSE
    ELSE ~timeUp

\* run(): elif after_action == 'stop': break
BreaksAfter(c) == c.after_action = "stop"

\* a policy that never pauses
SleepsAfterNever(c) == FALSE

\* run(): if after_action == 'pause': import time; time.sleep(pause_duration)
SleepsAfter(c) == c.after_action = "pause"

\* a stop mark that leaves the gauge as it is
MarkStoppedSkipped(st) == st

\* BreederMetricsClient.mark_stopped: status=running 0, status=stopped 1
MarkStopped(st) == "stopped"

\* BreederMetricsClient.mark_running: status=running 1, status=stopped 0
MarkRunning(st) == "running"

\* ------------------------------------------------------------ study binding
\* breeder.uuid as the configuration handed to a worker has it: the breeder's
\* uuid, or the uuid with the worker's shard suffix (as characters)
Uuids == {<<"u">>, <<"u", "-", "0">>, <<"u", "-", "1">>}

\* largest value of int(md5(worker_id).hexdigest(), 16) that is modelled
MaxDigest == 2

\* largest version of a rollback state that the bound workers write
MaxStoredVersion == 2

\* self.breeder_uuid.replace('-', '_')
ReplaceDash(u) == [i \in 1..Len(u) |-> IF u[i] = "-" THEN "_" ELSE u[i]]

\* self.breeder_db_name, the database of _get_db_url
DbName(u) == <<"breeder", "_">> \o ReplaceDash(u)

\* all_samplers of _assign_sampler
AllSamplers == <<"tpe", "nsga2", "random", "nsga3", "qmc">>

\* an assignment that indexes the whole list whatever run.parallel is
AssignSamplerUntruncated(parallel, d) ==
    IF parallel <= 1 THEN "tpe" ELSE AllSamplers[(d % 5) + 1]

\* _assign_sampler: d is the digest of the worker_id
AssignSampler(parallel, d) ==
    IF parallel <= 1 THEN "tpe"
    ELSE AllSamplers[(d % (IF parallel < 5 THEN parallel ELSE 5)) + 1]

\* _load_or_create_study: the study name
StudyName(u, parallel, sampler) ==
    IF parallel > 1 THEN <<u, "_", sampler, "_study">> ELSE <<u, "_study">>

\* the storage (database) and the study name a worker's configuration leads to
StudyKey(b) ==
    <<DbName(b.uuid),
      StudyName(b.uuid, b.parallel, AssignSampler(b.parallel, digest[b.uuid]))>>

\* a worker that is not being constructed
NoBinder ==
    [pc |-> "absent", uuid |-> <<"u">>, parallel |-> 1, target |-> 0,
     study |-> << >>, loaded |-> NoAttr]

\* dict.get(state_key) on the user attributes of study k
StoredState(k, target) == Get(studies[k].attrs, target, NoAttr)

\* optuna.create_study without load_if_exists: the name is taken
Duplicate(k) == k \in DOMAIN studies

\* ------------------------------------------------- cooperation callback
\* study names of the cooperation storage, as the pieces of the string: the
\* characters of the breeder uuid, "_" and underscore-free words
StudyOrder ==
    << <<"a", "_", "tpe", "_", "study">>,
       <<"a", "_", "nsga2", "_", "study">>,
       <<"a", "b", "_", "tpe", "_", "study">>,
       <<"b", "_", "study">> >>

StudyNames == {StudyOrder[i] : i \in 1..Len(StudyOrder)}

\* largest number of completed trials the workers tell, all together
MaxTold == 2

\* study_name.split('_')[0]
RECURSIVE BreederPrefix(_)
BreederPrefix(name) ==
    IF name = << >> \/ Head(name) = "_" THEN << >>
    ELSE <<Head(name)>> \o BreederPrefix(Tail(name))

\* study_name.startswith(prefix)
StartsWith(name, prefix) ==
    /\ Len(prefix) <= Len(name)
    /\ SubSeq(name, 1, Len(prefix)) = prefix

\* get_all_study_names: the names of the storage's studies, in storage order
AllStudyNames(st) == SelectSeq(StudyOrder, LAMBDA n : n \in DOMAIN st)

\* _share_trial, lines 78-83: the study named name is left out
Skipped(name, current, within) ==
    \/ name = current
    \/ ~within /\ StartsWith(name, BreederPrefix(current))

\* cooperating_study.add_trial(trial): the engine stores a new trial made from
\* the frozen trial
AddTrial(st, name, t) == [st EXCEPT ![name] = Append(@, t)]

\* a frozen trial: the study that ran it and its number there
NoTrial == [origin |-> << >>, number |-> 0]

\* a worker whose callback has not been invoked; own is the trial the worker
\* last told (the local trial of run())
IdleCallback(name, within) ==
    [pc |-> "idle", study |-> name, within |-> within, trial |-> NoTrial,
     names |-> << >>, attempts |-> << >>, decided |-> FALSE,
     told |-> 0, own |-> NoTrial]

\* ---------------------------------------------------- reconnaissance
\* A measured value is a fraction [n, d] in lowest terms; float('inf') is the
\* fraction 1/0 and None, a null sample, is 0/0.
RECURSIVE Gcd(_, _)
Gcd(a, b) == IF b = 0 THEN a ELSE Gcd(b, a % b)

Frac(n, d) == [n |-> n \div Gcd(n, d), d |-> d \div Gcd(n, d)]

\* float('inf')
InfValue == [n |-> 1, d |-> 0]

\* None as a sample
NullSample == [n |-> 0, d |-> 0]

\* a < b for the values of two samples
Less(a, b) == a.n * b.d < b.n * a.d

\* sorted(data)
RECURSIVE Sorted(_)
Sorted(data) ==
    IF data = << >> THEN << >>
    ELSE LET i == CHOOSE i \in 1..Len(data) :
                     \A j \in 1..Len(data) : ~Less(data[j], data[i])
             rest == [j \in 1..(Len(data) - 1) |->
                         IF j < i THEN data[j] ELSE data[j + 1]]
         IN <<data[i]>> \o Sorted(rest)

\* the sum of finite values
RECURSIVE SumOf(_)
SumOf(data) ==
    IF data = << >> THEN Frac(0, 1)
    ELSE LET t == SumOf(Tail(data)) h == Head(data)
         IN Frac(h.n * t.d + t.n * h.d, h.d * t.d)

\* statistics.median
Median(data) ==
    LET sd == Sorted(data) n == Len(data) i == n \div 2 IN
    IF n % 2 = 1 THEN sd[i + 1]
    ELSE LET two == SumOf(<<sd[i], sd[i + 1]>>) IN Frac(two.n, two.d * 2)

\* statistics.mean
Mean(data) == LET t == SumOf(data) IN Frac(t.n, t.d * Len(data))

\* min(valid_samples), max(valid_samples)
MinOf(data) == Sorted(data)[1]
MaxOf(data) == Sorted(data)[Len(data)]

\* aggregate_samples, line 57, with a filter that drops null samples only
ValidSamplesNotNull(samples) ==
    SelectSeq(samples, LAMBDA x : x # NullSample)

\* aggregate_samples, line 57: the samples that are neither None nor inf
ValidSamples(samples) ==
    SelectSeq(samples, LAMBDA x : x # NullSample /\ x # InfValue)

\* aggregate_samples
AggregateSamples(samples, method) ==
    LET valid == ValidSamples(samples) IN
    IF valid = << >> THEN InfValue
    ELSE CASE method = "median" -> Median(valid)
           [] method = "mean" -> Mean(valid)
           [] method = "min" -> MinOf(valid)
           [] method = "max" -> MaxOf(valid)
           [] OTHER -> Median(valid)

\* largest value of a metric's samples setting
MaxSamples == 3

\* max_retries and initial_delay of prometheus_query_with_retry
MaxRetries == 3
InitialDelay == 5

\* 2 ** k
RECURSIVE Pow2(_)
Pow2(k) == IF k = 0 THEN 1 ELSE 2 * Pow2(k - 1)

\* a constant delay instead of the doubling one
BackoffDelayFlat(attempt) == InitialDelay

\* delay = initial_delay * (2 ** attempt)
BackoffDelay(attempt) == InitialDelay * Pow2(attempt)

\* the except clause of line 99 applies to the outcome of custom_query
Retryable(kind) == kind = "retryable"

\* what prom_conn.custom_query does:
\*   scalar    returns {'resultType': 'scalar', 'result': [ts, value]}, the
\*             value "NaN" giving a null sample
\*   vector    returns a result whose resultType is not scalar
\*   short     returns a scalar result with fewer than two elements
\*   list      returns a list, which has no get
\*   retryable raises ConnectionError, Timeout or PrometheusApiClientException
\*   error     raises another exception
QueryOutcomes ==
    {[kind |-> "scalar", value |-> v] :
        v \in {Frac(1, 1), Frac(5, 1), NullSample}}
    \cup {[kind |-> k, value |-> NullSample] :
            k \in {"vector", "short", "list", "retryable", "error"}}

\* lines 212-215 raise for the result: .get fails, or the resultType is not
\* scalar, or extract_scalar_value finds fewer than two elements
ResultRaises(result) == result.kind # "scalar"

\* a sleep after every sample
SleepsBetweenAlways(i, samples, interval) == interval > 0

\* line 224: if i < samples - 1 and interval > 0
SleepsBetween(i, samples, interval) == i < samples - 1 /\ interval > 0

\* the value of a metric whatever happened while it was gathered
MetricValueUnguarded(failed, samples, method) ==
    AggregateSamples(samples, method)

\* _gather_single_metric: float('inf') when the service is unsupported or an
\* exception was caught, the aggregated samples otherwise
MetricValue(failed, samples, method) ==
    IF failed THEN InfValue ELSE AggregateSamples(samples, method)

\* the sleeps, queries and raised queries of a metric, in order
QueryEvent(i, k, kind) ==
    [ev |-> "query", secs |-> 0, sample |-> i, attempt |-> k, kind |-> kind]
SleepEvent(secs, why) ==
    [ev |-> "sleep", secs |-> secs, sample |-> 0, attempt |-> 0, kind |-> why]
RaiseEvent(i) ==
    [ev |-> "raise", secs |-> 0, sample |-> i, attempt |-> 0, kind |-> "raise"]

\* a metric's reconnaissance configuration
MetricConfig(name, service, stabilization, samples, interval, aggregation) ==
    [name |-> name, service |-> service, stabilization |-> stabilization,
     samples |-> samples, interval |-> interval, aggregation |-> aggregation]

NoMetric == MetricConfig("none", "none", 0, 1, 0, "median")

\* the script is not running
ReconIdle ==
    [pc |-> "absent", config |-> << >>, todo |-> << >>, cur |-> NoMetric,
     i |-> 0, attempt |-> 0,
     result |-> [kind |-> "none", value |-> NullSample], samples |-> << >>,
     log |-> << >>, data |-> << >>, hist |-> << >>, status |-> "none"]

\* ------------------------------------------------------- metrics client
\* largest number of method calls on one client
MaxClientCalls == 4

\* the methods that write one sample: inc_*, set_* and observe_*
SampleMethods ==
    {"inc_trial", "set_best_value", "set_total_trials",
     "observe_trial_duration", "inc_effectuation", "inc_guardrail_violation",
     "inc_rollback", "inc_trial_shared"}

\* no BreederMetricsClient has been constructed
NoClient ==
    [pc |-> "absent", enabled |-> FALSE, registry |-> FALSE,
     status |-> "unset", written |-> [m \in SampleMethods |-> 0],
     contacts |-> 0, gateway |-> "none", result |-> "none", calls |-> 0]

\* os.getenv("PUSH_METRICS_ENABLED", "true").lower() == "true"
Enabled(env) == env \in {"true", "True", "TRUE"}

\* a push that reports success whatever the gateway did
PushResultOptimistic(enabled, delivered) == IF enabled THEN "true" ELSE "false"

\* push: False when disabled or when push_to_gateway raised, True otherwise
PushResult(enabled, delivered) ==
    IF enabled /\ delivered THEN "true" ELSE "false"

\* no function has been applied yet
NoCall == [fn |-> "none"]

NoWrite == [kind |-> "none", by |-> 0, before |-> NoAttr, after |-> NoAttr]

Write(kind, w, new) == [kind |-> kind, by |-> w, before |-> attr, after |-> new]

\* ------------------------------------------------------------------- Init
TypeInit(active) ==
    /\ \/ trials = << >> /\ attr = NoAttr
       \/ \E k \in 0..MaxThreshold :
             trials = PersistedTrials(k) /\ attr = PersistedState(k)
    /\ pc = [w \in Workers |-> IF w \in active THEN "new" ELSE "absent"]
    /\ rs = [w \in Workers |-> NoAttr]
    /\ params = [w \in Workers |-> Unbound]
    /\ trial = [w \in Workers |-> 0]
    /\ metrics = [w \in Workers |-> PenaltyMetrics]
    /\ inExcept = [w \in Workers |-> FALSE]
    /\ rbResult = [w \in Workers |-> FALSE]
    /\ raised = [w \in Workers |-> FALSE]
    /\ trialCount = [w \in Workers |-> 0]
    /\ rollbackCount = [w \in Workers |-> [success |-> 0, failed |-> 0]]
    /\ restore = [w \in Workers |-> None]
    /\ slept = [w \in Workers |-> 0]
    /\ timeBound = [w \in Workers |-> FALSE]
    /\ workerStatus = [w \in Workers |-> "unset"]
    /\ pushed = [w \in Workers |-> "none"]
    /\ rbMark = 0
    /\ lastWrite = NoWrite
    /\ call = NoCall

\* no worker is being constructed against the storage
BindIdle ==
    /\ studies = << >>
    /\ binder = [w \in Workers |-> NoBinder]
    /\ digest = [u \in Uuids |-> 0]
    /\ lastStored = << >>

\* no cooperation storage is in use
ShareIdle ==
    /\ store = << >>
    /\ listable = FALSE
    /\ cb = [w \in Workers |-> IdleCallback(<< >>, FALSE)]

\* nothing runs outside the worker loop
SideIdle == ShareIdle /\ recon = ReconIdle /\ client = NoClient

\* one worker drives the study
InitSingle == TypeInit({1}) /\ cfg \in Configs /\ BindIdle /\ SideIdle

\* the configurations of the two-worker runs
SharedConfigs ==
    [ rollback_enabled : {TRUE},
      threshold        : 1..MaxThreshold,
      target_state     : TargetStates,
      on_failure       : {"continue"},
      after_action     : {"pause"},
      guardrails       : {1},
      iter_min         : {0},
      iter_max         : {MaxIterShared} ]

\* two workers of the breeder are bound to the same study and target
Init == TypeInit(Workers) /\ cfg \in SharedConfigs /\ BindIdle /\ SideIdle

\* ---------------------------------------------------------------- actions
\* BreederWorker.__init__: bind the study, _init_rollback_state when rollback
\* is enabled, then _update_state, which reads study.best_trials[0]
Construct(w) ==
    /\ pc[w] = "new"
    /\ IF cfg.rollback_enabled /\ attr = NoAttr
       THEN /\ attr' = InitialRollbackState
            /\ lastWrite' = Write("init", w, InitialRollbackState)
       ELSE UNCHANGED <<attr, lastWrite>>
    /\ pc' = [pc EXCEPT ![w] = IF BestTrials(trials) = {} THEN "init_failed"
                                ELSE "start"]
    /\ UNCHANGED <<call, bindVars, sideVars, cfg, timeBound, workerStatus, pushed, trials, rs, params, trial, metrics, inExcept, rbResult,
                   raised, trialCount, rollbackCount, restore, slept, rbMark>>

\* run(): mark_running, push, trial_count = 0
RunStart(w) ==
    /\ pc[w] = "start"
    /\ pc' = [pc EXCEPT ![w] = "loop"]
    /\ trialCount' = [trialCount EXCEPT ![w] = 0]
    /\ workerStatus' = [workerStatus EXCEPT ![w] = MarkRunning(@)]
    /\ pushed' = [pushed EXCEPT ![w] = workerStatus'[w]]
    /\ UNCHANGED <<call, bindVars, sideVars, cfg, timeBound, trials, attr, rs, params, trial, metrics, inExcept,
                   rbResult, raised, rollbackCount, restore, slept, rbMark,
                   lastWrite>>

\* while self._should_continue(): ... if self.rollback_enabled and ...
LoopCheck(w) ==
    /\ pc[w] = "loop"
    /\ \E timeUp \in BOOLEAN :
          pc' = [pc EXCEPT ![w] =
                    IF ShouldContinue(trials, cfg, timeUp)
                    THEN IF cfg.rollback_enabled THEN "check_rb" ELSE "ask"
                    ELSE "finally"]
    /\ UNCHANGED <<call, bindVars, sideVars, cfg, timeBound, workerStatus, pushed, trials, attr, rs, params, trial, metrics, inExcept,
                   rbResult, raised, trialCount, rollbackCount, restore, slept,
                   rbMark, lastWrite>>

\* run(): self._check_needs_rollback() at the top of the loop
CheckNeedsRollback(w) ==
    /\ pc[w] = "check_rb"
    /\ pc' = [pc EXCEPT ![w] = IF NeedsRollback(attr, cfg) THEN "rb_read"
                                ELSE "ask"]
    /\ UNCHANGED <<call, bindVars, sideVars, cfg, timeBound, workerStatus, pushed, trials, attr, rs, params, trial, metrics, inExcept,
                   rbResult, raised, trialCount, rollbackCount, restore, slept,
                   rbMark, lastWrite>>

\* _execute_rollback: load the state and choose the parameters to restore
ExecuteRollbackRead(w) ==
    /\ pc[w] = "rb_read"
    /\ IF cfg.target_state = "best" /\ BestTrials(trials) = {}
       THEN \* self.study.best_trials[0] raises IndexError
            /\ pc' = [pc EXCEPT ![w] = "outer_except"]
            /\ UNCHANGED <<rs, restore, rbResult>>
       ELSE IF ParamsToRestore(attr, trials, cfg) = None
       THEN \* "No parameters to restore": return False
            /\ pc' = [pc EXCEPT ![w] = "after_action"]
            /\ rbResult' = [rbResult EXCEPT ![w] = FALSE]
            /\ UNCHANGED <<rs, restore>>
       ELSE /\ pc' = [pc EXCEPT ![w] = "rb_submit"]
            /\ rs' = [rs EXCEPT ![w] = attr]
            /\ restore' = [restore EXCEPT ![w] = ParamsToRestore(attr, trials, cfg)]
            /\ UNCHANGED rbResult
    /\ UNCHANGED <<call, bindVars, sideVars, cfg, timeBound, workerStatus, pushed, trials, attr, params, trial, metrics, inExcept, raised,
                   trialCount, rollbackCount, slept, rbMark, lastWrite>>

\* _execute_rollback: wmill.run_flow_async returned a job id
RollbackSubmit(w) ==
    /\ pc[w] = "rb_submit"
    /\ pc' = [pc EXCEPT ![w] = "rb_wait"]
    /\ UNCHANGED <<call, bindVars, sideVars, cfg, timeBound, workerStatus, pushed, trials, attr, rs, params, trial, metrics, inExcept,
                   rbResult, raised, trialCount, rollbackCount, restore, slept,
                   rbMark, lastWrite>>

\* _execute_rollback: wmill.get_result returned; state completed, counter reset
RollbackCompleted(w) ==
    /\ pc[w] = "rb_wait"
    /\ LET new == UpdateRollbackState(RollbackCompletedState(rs[w])) IN
          /\ attr' = new
          /\ rs' = [rs EXCEPT ![w] = NoAttr]
          /\ lastWrite' = Write("rb_completed", w, new)
    /\ rollbackCount' = [rollbackCount EXCEPT ![w].success = @ + 1]
    /\ rbResult' = [rbResult EXCEPT ![w] = TRUE]
    /\ rbMark' = Len(trials)
    /\ restore' = [restore EXCEPT ![w] = None]
    /\ pc' = [pc EXCEPT ![w] = "after_action"]
    /\ UNCHANGED <<call, bindVars, sideVars, cfg, timeBound, workerStatus, pushed, trials, params, trial, metrics, inExcept, raised,
                   trialCount, slept>>

\* _execute_rollback: the submission or the result wait raised; on_failure
RollbackFailed(w) ==
    /\ pc[w] \in {"rb_submit", "rb_wait"}
    /\ rollbackCount' = [rollbackCount EXCEPT ![w].failed = @ + 1]
    /\ LET new == UpdateRollbackState(RollbackFailedState(rs[w], cfg)) IN
          /\ attr' = new
          /\ rs' = [rs EXCEPT ![w] = NoAttr]
          /\ lastWrite' = Write("rb_failed", w, new)
    /\ rbResult' = [rbResult EXCEPT ![w] = FALSE]
    /\ restore' = [restore EXCEPT ![w] = None]
    /\ pc' = [pc EXCEPT ![w] = IF cfg.on_failure = "stop" THEN "outer_except"
                                ELSE "after_action"]
    /\ UNCHANGED <<call, bindVars, sideVars, cfg, timeBound, workerStatus, pushed, trials, params, trial, metrics, inExcept, raised,
                   trialCount, slept, rbMark>>

\* run(): the after-action policy that follows _execute_rollback; the pause
\* branch holds run()'s only import of time, which makes time a local name
\* of run() that is bound from then on
AfterAction(w) ==
    /\ pc[w] = "after_action"
    /\ pc' = [pc EXCEPT ![w] = IF SleepsAfter(cfg) THEN "ask"
                                ELSE IF BreaksAfter(cfg) THEN "finally"
                                ELSE "ask"]
    /\ slept' = [slept EXCEPT ![w] = IF SleepsAfter(cfg) THEN @ + 1 ELSE @]
    /\ timeBound' = [timeBound EXCEPT ![w] = @ \/ SleepsAfter(cfg)]
    /\ rbResult' = [rbResult EXCEPT ![w] = FALSE]
    /\ UNCHANGED <<call, bindVars, sideVars, cfg, workerStatus, pushed, trials, attr, rs, params, trial, metrics, inExcept,
                   raised, trialCount, rollbackCount, restore, rbMark,
                   lastWrite>>

\* run(): trial = self.study.ask(), then trial_start_time = time.time()
\* ahead of the per-trial try: time is a local name of run() (line 978), so
\* the read raises UnboundLocalError unless the pause branch has bound it
Ask(w) ==
    /\ pc[w] = "ask"
    /\ trials' = Append(trials, RunningTrial(w))
    /\ trial' = [trial EXCEPT ![w] = Len(trials) + 1]
    /\ pc' = [pc EXCEPT ![w] = IF timeBound[w] THEN "suggest"
                                ELSE "outer_except"]
    /\ UNCHANGED <<call, bindVars, sideVars, cfg, timeBound, workerStatus, pushed, attr, rs, params, metrics, inExcept, rbResult, raised,
                   trialCount, rollbackCount, restore, slept, rbMark, lastWrite>>

\* run(): params = self._suggest_params(trial) returned an assignment
Suggest(w) ==
    /\ pc[w] = "suggest"
    /\ \E p \in Params :
          /\ params' = [params EXCEPT ![w] = p]
          /\ trials' = [trials EXCEPT ![trial[w]].params = p]
    /\ pc' = [pc EXCEPT ![w] = "execute"]
    /\ UNCHANGED <<call, bindVars, sideVars, cfg, timeBound, workerStatus, pushed, attr, rs, trial, metrics, inExcept, rbResult, raised,
                   trialCount, rollbackCount, restore, slept, rbMark, lastWrite>>

\* run(): self._suggest_params(trial) raised; params keeps what it held
SuggestRaises(w) ==
    /\ pc[w] = "suggest"
    /\ pc' = [pc EXCEPT ![w] = "except"]
    /\ UNCHANGED <<call, bindVars, sideVars, cfg, timeBound, workerStatus, pushed, trials, attr, rs, params, trial, metrics, inExcept,
                   rbResult, raised, trialCount, rollbackCount, restore, slept,
                   rbMark, lastWrite>>

\* _execute_trial: the effectuation flow applied params and returned metrics
ExecuteTrial(w) ==
    /\ pc[w] = "execute"
    /\ \E m \in FlowMetrics(cfg) : metrics' = [metrics EXCEPT ![w] = m]
    /\ trials' = [trials EXCEPT ![trial[w]].apply = "ok"]
    /\ pc' = [pc EXCEPT ![w] = "judge"]
    /\ UNCHANGED <<call, bindVars, sideVars, cfg, timeBound, workerStatus, pushed, attr, rs, params, trial, inExcept, rbResult, raised,
                   trialCount, rollbackCount, restore, slept, rbMark, lastWrite>>

\* _execute_trial: the flow raised or returned no metrics; the penalty map
ExecuteTrialFails(w) ==
    /\ pc[w] = "execute"
    /\ metrics' = [metrics EXCEPT ![w] = PenaltyMetrics]
    /\ trials' = [trials EXCEPT ![trial[w]].apply = "failed"]
    /\ pc' = [pc EXCEPT ![w] = "judge"]
    /\ UNCHANGED <<call, bindVars, sideVars, cfg, timeBound, workerStatus, pushed, attr, rs, params, trial, inExcept, rbResult, raised,
                   trialCount, rollbackCount, restore, slept, rbMark, lastWrite>>

\* run(): guardrails violated; study.tell(trial, state=FAIL)
TellFail(w) ==
    /\ pc[w] = "judge"
    /\ CheckGuardrails(metrics[w], cfg)
    /\ trials' = [trials EXCEPT ![trial[w]].state = "failed"]
    /\ metrics' = [metrics EXCEPT ![w] = PenaltyMetrics]
    /\ pc' = [pc EXCEPT ![w] = "hgv_read"]
    /\ UNCHANGED <<call, bindVars, sideVars, cfg, timeBound, workerStatus, pushed, attr, rs, params, trial, inExcept, rbResult,
                   raised, trialCount, rollbackCount, restore, slept, rbMark,
                   lastWrite>>

\* run(): no violation; study.tell(trial, values)
TellComplete(w) ==
    /\ pc[w] = "judge"
    /\ ~CheckGuardrails(metrics[w], cfg)
    /\ trials' = [trials EXCEPT ![trial[w]].state = "complete",
                                ![trial[w]].value = metrics[w].obj]
    /\ metrics' = [metrics EXCEPT ![w] = PenaltyMetrics]
    /\ pc' = [pc EXCEPT ![w] = "hst_read"]
    /\ UNCHANGED <<call, bindVars, sideVars, cfg, timeBound, workerStatus, pushed, attr, rs, params, trial, inExcept, rbResult,
                   raised, trialCount, rollbackCount, restore, slept, rbMark,
                   lastWrite>>

\* the end of a trial's try block: trial_count += 1 (skipped by the handler)
TrialCountAfter(w) == IF inExcept[w] THEN trialCount[w] ELSE trialCount[w] + 1

\* _handle_guardrail_violation: return at once without rollback, else load
\* the state and count the failure
HandleViolationRead(w) ==
    /\ pc[w] = "hgv_read"
    /\ IF cfg.rollback_enabled
       THEN /\ rs' = [rs EXCEPT ![w] = CountFailure(attr)]
            /\ pc' = [pc EXCEPT ![w] = "hgv_check"]
            /\ UNCHANGED <<trialCount, inExcept>>
       ELSE /\ pc' = [pc EXCEPT ![w] = "loop"]
            /\ trialCount' = [trialCount EXCEPT ![w] = TrialCountAfter(w)]
            /\ inExcept' = [inExcept EXCEPT ![w] = FALSE]
            /\ UNCHANGED rs
    /\ UNCHANGED <<call, bindVars, sideVars, cfg, timeBound, workerStatus, pushed, trials, attr, params, trial, metrics, rbResult, raised,
                   rollbackCount, restore, slept, rbMark, lastWrite>>

\* _handle_guardrail_violation: self._check_needs_rollback() picks the state
HandleViolationCheck(w) ==
    /\ pc[w] = "hgv_check"
    /\ rs' = [rs EXCEPT ![w] = ViolationState(rs[w], attr, cfg)]
    /\ pc' = [pc EXCEPT ![w] = "hgv_write"]
    /\ UNCHANGED <<call, bindVars, sideVars, cfg, timeBound, workerStatus, pushed, trials, attr, params, trial, metrics, inExcept, rbResult,
                   raised, trialCount, rollbackCount, restore, slept, rbMark,
                   lastWrite>>

\* _handle_guardrail_violation: self._update_rollback_state(rollback_state)
HandleViolationWrite(w) ==
    /\ pc[w] = "hgv_write"
    /\ LET new == UpdateRollbackState(rs[w]) IN
          /\ attr' = new
          /\ rs' = [rs EXCEPT ![w] = NoAttr]
          /\ lastWrite' = Write("failure", w, new)
    /\ pc' = [pc EXCEPT ![w] = "loop"]
    /\ trialCount' = [trialCount EXCEPT ![w] = TrialCountAfter(w)]
    /\ inExcept' = [inExcept EXCEPT ![w] = FALSE]
    /\ UNCHANGED <<call, bindVars, sideVars, cfg, timeBound, workerStatus, pushed, trials, params, trial, metrics, rbResult, raised,
                   rollbackCount, restore, slept, rbMark>>

\* _handle_successful_trial: return at once without rollback, else load the
\* state and reset it
HandleSuccessRead(w) ==
    /\ pc[w] = "hst_read"
    /\ IF cfg.rollback_enabled
       THEN /\ rs' = [rs EXCEPT ![w] = SuccessState(attr, params[w])]
            /\ pc' = [pc EXCEPT ![w] = "hst_write"]
            /\ UNCHANGED trialCount
       ELSE /\ pc' = [pc EXCEPT ![w] = "loop"]
            /\ trialCount' = [trialCount EXCEPT ![w] = @ + 1]
            /\ UNCHANGED rs
    /\ UNCHANGED <<call, bindVars, sideVars, cfg, timeBound, workerStatus, pushed, trials, attr, params, trial, metrics, inExcept, rbResult,
                   raised, rollbackCount, restore, slept, rbMark, lastWrite>>

\* _handle_successful_trial: self._update_rollback_state(rollback_state)
HandleSuccessWrite(w) ==
    /\ pc[w] = "hst_write"
    /\ LET new == UpdateRollbackState(rs[w]) IN
          /\ attr' = new
          /\ rs' = [rs EXCEPT ![w] = NoAttr]
          /\ lastWrite' = Write("success", w, new)
    /\ pc' = [pc EXCEPT ![w] = "loop"]
    /\ trialCount' = [trialCount EXCEPT ![w] = @ + 1]
    /\ UNCHANGED <<call, bindVars, sideVars, cfg, timeBound, workerStatus, pushed, trials, params, trial, metrics, inExcept, rbResult,
                   raised, rollbackCount, restore, slept, rbMark>>

\* run(): the per-trial except handler: study.tell(trial, state=FAIL), then
\* self._handle_guardrail_violation(params), which reads the local params
ExceptHandler(w) ==
    /\ pc[w] = "except"
    /\ trials' = [trials EXCEPT ![trial[w]].state = "failed"]
    /\ IF params[w] = Unbound
       THEN \* UnboundLocalError leaves the handler
            /\ pc' = [pc EXCEPT ![w] = "outer_except"]
            /\ UNCHANGED inExcept
       ELSE /\ pc' = [pc EXCEPT ![w] = "hgv_read"]
            /\ inExcept' = [inExcept EXCEPT ![w] = TRUE]
    /\ UNCHANGED <<call, bindVars, sideVars, cfg, timeBound, workerStatus, pushed, attr, rs, params, trial, metrics, rbResult, raised,
                   trialCount, rollbackCount, restore, slept, rbMark, lastWrite>>

\* run(): the loop-level except: self._update_state(), then raise
OuterExcept(w) ==
    /\ pc[w] = "outer_except"
    /\ raised' = [raised EXCEPT ![w] = TRUE]
    /\ pc' = [pc EXCEPT ![w] = "finally"]
    /\ UNCHANGED <<call, bindVars, sideVars, cfg, timeBound, workerStatus, pushed, trials, attr, rs, params, trial, metrics, inExcept,
                   rbResult, trialCount, rollbackCount, restore, slept, rbMark,
                   lastWrite>>

\* run(): finally: mark_stopped, push; then the exception goes on, or
\* self._update_state() (which reads study.best_trials[0]) and return
Finally(w) ==
    /\ pc[w] = "finally"
    /\ pc' = [pc EXCEPT ![w] = IF raised[w] \/ BestTrials(trials) = {}
                                THEN "raised" ELSE "done"]
    /\ workerStatus' = [workerStatus EXCEPT ![w] = MarkStopped(@)]
    /\ pushed' = [pushed EXCEPT ![w] = workerStatus'[w]]
    /\ UNCHANGED <<call, bindVars, sideVars, cfg, timeBound, trials, attr, rs, params, trial, metrics, inExcept,
                   rbResult, raised, trialCount, rollbackCount, restore, slept,
                   rbMark, lastWrite>>

WorkerStep(w) ==
    \/ Construct(w) \/ RunStart(w) \/ LoopCheck(w) \/ CheckNeedsRollback(w)
    \/ ExecuteRollbackRead(w) \/ RollbackSubmit(w) \/ RollbackCompleted(w)
    \/ RollbackFailed(w) \/ AfterAction(w)
    \/ Ask(w) \/ Suggest(w) \/ SuggestRaises(w)
    \/ ExecuteTrial(w) \/ ExecuteTrialFails(w)
    \/ TellFail(w) \/ TellComplete(w)
    \/ HandleViolationRead(w) \/ HandleViolationCheck(w) \/ HandleViolationWrite(w)
    \/ HandleSuccessRead(w) \/ HandleSuccessWrite(w)
    \/ ExceptHandler(w) \/ OuterExcept(w) \/ Finally(w)

Next == \E w \in Workers : WorkerStep(w)

\* two workers on one study
Spec == Init /\ [][Next]_vars

\* a single worker
SpecSingle == InitSingle /\ [][Next]_vars

\* ------------------------------------ the worker loop beside its peers
\* largest number of trials peers copy into the worker's study during a run
MaxCopied == 1

\* a completed trial of a peer's study, as add_trial stores it: owner 3 is
\* the peer, which is no worker of this study
CopiedTrial ==
    [state |-> "complete", params |-> "P2", value |-> 1, owner |-> 3,
     apply |-> "ok"]

\* the trials that peers copied into the study during the run
Copied(ts) == {i \in 1..Len(ts) : ts[i].owner = CopiedTrial.owner}

\* CommunicationCallback._share_trial of a peer, line 87:
\* cooperating_study.add_trial(trial) on this worker's study, while the
\* worker runs
PeerAddTrial ==
    /\ \E w \in Workers : pc[w] \notin {"absent", "new", "init_failed",
                                        "done", "raised"}
    /\ Cardinality(Copied(trials)) < MaxCopied
    /\ trials' = Append(trials, CopiedTrial)
    /\ UNCHANGED <<call, bindVars, sideVars, cfg, attr, pc, rs, params, trial,
                   metrics, inExcept, rbResult, raised, trialCount,
                   rollbackCount, restore, slept, timeBound, workerStatus,
                   pushed, rbMark, lastWrite>>

NextCoop == Next \/ PeerAddTrial

\* one worker, with peers that share trials into its study
SpecCoop == InitSingle /\ [][NextCoop]_vars

\* ---------------------------------------------- the worker loop to its end
\* iterations.max of the configurations run to their end; their
\* iterations.min is 0 or one above it
MaxIterLive == 2

\* every rollback strategy, with iterations.min below and above
\* iterations.max
LiveConfigs ==
    {[c EXCEPT !.iter_min = m, !.iter_max = MaxIterLive] :
        c \in Configs, m \in {0, MaxIterLive + 1}}

InitLive == TypeInit({1}) /\ cfg \in LiveConfigs /\ BindIdle /\ SideIdle

\* one worker beside its peers, under the assumption that every call of the
\* worker returns: the worker always takes its next step
SpecLive == InitLive /\ [][NextCoop]_vars /\ WF_vars(Next)

\* ------------------------------------------- study binding: the actions
\* the storage before the workers start: empty, or holding a study of three
\* trials under the name the first worker derives
InitBind ==
    /\ TypeInit({}) /\ trials = << >> /\ cfg \in PlainConfigs
    /\ cfg.guardrails = 0 /\ cfg.iter_min = 0 /\ SideIdle
    /\ digest \in [Uuids -> 0..MaxDigest]
    /\ \E u1, u2 \in Uuids, p \in {1, 3}, t2 \in {0, 1} :
          binder = [w \in Workers |->
                       [pc |-> "new", uuid |-> IF w = 1 THEN u1 ELSE u2,
                        parallel |-> p, target |-> IF w = 1 THEN 0 ELSE t2,
                        study |-> << >>, loaded |-> NoAttr]]
    /\ \/ studies = << >>
       \/ studies = (StudyKey(binder[1]) :> [trials |-> 3, attrs |-> << >>])
    /\ lastStored = << >>

\* _load_or_create_study: optuna.load_study finds the study or raises KeyError
LoadStudy(w) ==
    /\ binder[w].pc = "new"
    /\ binder' = [binder EXCEPT
                    ![w].pc = IF StudyKey(binder[w]) \in DOMAIN studies
                              THEN "bound" ELSE "create",
                    ![w].study = IF StudyKey(binder[w]) \in DOMAIN studies
                                 THEN StudyKey(binder[w]) ELSE << >>]
    /\ UNCHANGED <<loopVars, call, sideVars, studies, digest, lastStored>>

\* _load_or_create_study, except branch: optuna.create_study, which raises
\* DuplicatedStudyError (neither KeyError nor ValueError) when the name exists
CreateStudy(w) ==
    /\ binder[w].pc = "create"
    /\ IF Duplicate(StudyKey(binder[w]))
       THEN /\ binder' = [binder EXCEPT ![w].pc = "failed"]
            /\ UNCHANGED studies
       ELSE /\ studies' = (StudyKey(binder[w]) :> [trials |-> 0, attrs |-> << >>])
                              @@ studies
            /\ binder' = [binder EXCEPT ![w].pc = "bound",
                                        ![w].study = StudyKey(binder[w])]
    /\ UNCHANGED <<loopVars, call, sideVars, digest, lastStored>>

\* _init_rollback_state / _get_rollback_state: study.user_attrs.get(state_key)
GetRollbackState(w) ==
    /\ binder[w].pc \in {"bound", "ready"}
    /\ binder' = [binder EXCEPT
                    ![w].loaded = StoredState(binder[w].study, binder[w].target),
                    ![w].pc = IF binder[w].pc = "bound" THEN "init" ELSE "loaded"]
    /\ UNCHANGED <<loopVars, call, sideVars, studies, digest, lastStored>>

\* _init_rollback_state: set_user_attr of the initial state unless one exists
InitRollbackState(w) ==
    /\ binder[w].pc = "init"
    /\ IF binder[w].loaded = NoAttr
       THEN /\ studies' = [studies EXCEPT ![binder[w].study].attrs =
                              (binder[w].target :> InitialRollbackState) @@ @]
            /\ lastStored' = (binder[w].target :> InitialRollbackState)
                                 @@ lastStored
       ELSE UNCHANGED <<studies, lastStored>>
    /\ binder' = [binder EXCEPT ![w].pc = "ready", ![w].loaded = NoAttr]
    /\ UNCHANGED <<loopVars, call, sideVars, digest>>

\* _update_rollback_state of a loaded state in which a failure was counted
StoreRollbackState(w) ==
    /\ binder[w].pc = "loaded"
    /\ IF binder[w].loaded = NoAttr \/ binder[w].loaded.version >= MaxStoredVersion
       THEN UNCHANGED <<studies, lastStored>>
       ELSE LET new == UpdateRollbackState(CountFailure(binder[w].loaded)) IN
            /\ studies' = [studies EXCEPT ![binder[w].study].attrs =
                              (binder[w].target :> new) @@ @]
            /\ lastStored' = (binder[w].target :> new) @@ lastStored
    /\ binder' = [binder EXCEPT ![w].pc = "ready", ![w].loaded = NoAttr]
    /\ UNCHANGED <<loopVars, call, sideVars, digest>>

BindStep(w) ==
    \/ LoadStudy(w) \/ CreateStudy(w) \/ GetRollbackState(w)
    \/ InitRollbackState(w) \/ StoreRollbackState(w)

NextBind == \E w \in Workers : BindStep(w)

\* the workers of one breeder are constructed against one storage
SpecBind == InitBind /\ [][NextBind]_vars

\* ------------------------------------- cooperation callback: the actions
\* no worker loop, function or binding is under way
OnlySide ==
    /\ TypeInit({}) /\ trials = << >> /\ cfg \in PlainConfigs
    /\ cfg.guardrails = 0 /\ cfg.iter_min = 0 /\ BindIdle

\* the storage holds the workers' studies and any of the other studies, each
\* without trials; share_within_breeder is a constructor argument
InitShare ==
    /\ OnlySide /\ recon = ReconIdle /\ client = NoClient
    /\ listable \in BOOLEAN
    /\ \E n1, n2 \in StudyNames, others \in SUBSET StudyNames,
          within \in BOOLEAN :
          /\ store = [n \in {n1, n2} \cup others |-> << >>]
          /\ cb = [w \in Workers |->
                      IdleCallback(IF w = 1 THEN n1 ELSE n2, within)]

\* run(), lines 985-1017: study.ask and study.tell of a trial of the worker's
\* study that completes
ShareTell(w) ==
    /\ cb[w].pc = "idle"
    /\ cb[1].told + cb[2].told < MaxTold
    /\ store' = AddTrial(store, cb[w].study,
                         [origin |-> cb[w].study,
                          number |-> Len(store[cb[w].study])])
    /\ cb' = [cb EXCEPT ![w].pc = "told", ![w].told = @ + 1,
                         ![w].own = [origin |-> cb[w].study,
                                     number |-> Len(store[cb[w].study])]]
    /\ UNCHANGED <<loopVars, call, bindVars, recon, client, listable>>

\* run(), lines 1036-1037, and __call__: the callback is handed
\* study.trials[-1] and _should_share_trial decides
CallbackInvoke(w) ==
    /\ cb[w].pc = "told"
    /\ \E share \in BOOLEAN :
          cb' = [cb EXCEPT
                   ![w].pc = IF share THEN "list" ELSE "returned",
                   ![w].decided = share,
                   ![w].trial = store[cb[w].study][Len(store[cb[w].study])],
                   ![w].names = << >>,
                   ![w].attempts = << >>]
    /\ UNCHANGED <<loopVars, call, bindVars, recon, client, store, listable>>

\* _share_trial, line 75: study.get_all_study_names.  optuna's Study class
\* has no such attribute (get_all_study_names is a function of optuna.study),
\* so on a Study the lookup raises AttributeError, which line 92 catches
ListStudyNames(w) ==
    /\ cb[w].pc = "list"
    /\ cb' = [cb EXCEPT
                ![w].pc = IF listable THEN "loop" ELSE "returned",
                ![w].names = IF listable THEN AllStudyNames(store) ELSE << >>]
    /\ UNCHANGED <<loopVars, call, bindVars, recon, client, store, listable>>

\* _share_trial, lines 77-90: one iteration of the loop over the study names
ShareStep(w) ==
    /\ cb[w].pc = "loop"
    /\ cb[w].names # << >>
    /\ LET name == Head(cb[w].names) IN
       IF Skipped(name, cb[w].study, cb[w].within)
       THEN /\ cb' = [cb EXCEPT ![w].names = Tail(@)]
            /\ UNCHANGED store
       ELSE /\ cb' = [cb EXCEPT ![w].names = Tail(@),
                                ![w].attempts = Append(@, name)]
            /\ \/ store' = AddTrial(store, name, cb[w].trial)
               \/ UNCHANGED store
    /\ UNCHANGED <<loopVars, call, bindVars, recon, client, listable>>

\* _share_trial and __call__ return to run()
CallbackReturn(w) ==
    /\ \/ cb[w].pc = "loop" /\ cb[w].names = << >>
       \/ cb[w].pc = "returned"
    /\ cb' = [cb EXCEPT ![w].pc = "idle"]
    /\ UNCHANGED <<loopVars, call, bindVars, recon, client, store, listable>>

ShareWorkerStep(w) ==
    \/ ShareTell(w) \/ CallbackInvoke(w) \/ ListStudyNames(w)
    \/ ShareStep(w) \/ CallbackReturn(w)

NextShare == \E w \in Workers : ShareWorkerStep(w)

\* two workers with cooperation.active on one storage
SpecShare == InitShare /\ [][NextShare]_vars

\* --------------------------------------------- reconnaissance: the actions
\* the objective's reconnaissance configuration
ObjectiveConfigs ==
    {MetricConfig("latency", service, stabilization, samples, interval,
                  "median") :
        service \in {"prometheus", "ssh"}, stabilization \in {0, 120},
        samples \in 1..MaxSamples, interval \in {0, 2}}

\* the guardrail's reconnaissance configuration
GuardrailConfigs ==
    {MetricConfig("cpu", "prometheus", 0, 1, 0, "max")}

\* main is called with a configuration of one objective and at most one
\* guardrail
InitRecon ==
    /\ OnlySide /\ ShareIdle /\ client = NoClient
    /\ \E o \in ObjectiveConfigs,
          gs \in {<< >>} \cup {<<g>> : g \in GuardrailConfigs} :
          recon = [ReconIdle EXCEPT !.pc = "main", !.config = <<o>> \o gs,
                                    !.todo = <<o>> \o gs]

\* main, lines 150-165: the next objective or guardrail is gathered
GatherNext ==
    /\ recon.pc = "main"
    /\ recon.todo # << >>
    /\ recon' = [recon EXCEPT !.pc = "gather", !.cur = Head(recon.todo),
                              !.todo = Tail(recon.todo), !.i = 0,
                              !.attempt = 0, !.samples = << >>, !.log = << >>]

\* _gather_single_metric, lines 187-207 and 244-246: the service is checked
\* and the stabilization sleep is made
GatherStart ==
    /\ recon.pc = "gather"
    /\ IF recon.cur.service # "prometheus"
       THEN recon' = [recon EXCEPT !.pc = "failed"]
       ELSE recon' = [recon EXCEPT
                        !.pc = "query",
                        !.log = IF recon.cur.stabilization > 0
                                THEN Append(@, SleepEvent(
                                        recon.cur.stabilization,
                                        "stabilization"))
                                ELSE @]

\* prometheus_query_with_retry, lines 94-114: one attempt of the query, with
\* the sleep or the raise that follows a failed one
QueryAttempt ==
    /\ recon.pc = "query"
    /\ \E outcome \in QueryOutcomes :
          LET asked == Append(recon.log,
                              QueryEvent(recon.i, recon.attempt, outcome.kind))
          IN
          IF Retryable(outcome.kind)
          THEN IF recon.attempt < MaxRetries - 1
               THEN recon' = [recon EXCEPT
                                !.attempt = @ + 1,
                                !.log = Append(asked,
                                           SleepEvent(BackoffDelay(recon.attempt),
                                                      "backoff"))]
               ELSE recon' = [recon EXCEPT
                                !.pc = "failed",
                                !.log = Append(asked, RaiseEvent(recon.i))]
          ELSE IF outcome.kind = "error"
          THEN recon' = [recon EXCEPT
                           !.pc = "failed",
                           !.log = Append(asked, RaiseEvent(recon.i))]
          ELSE recon' = [recon EXCEPT !.pc = "sample", !.result = outcome,
                                      !.log = asked]

\* _gather_single_metric, lines 212-225: the result becomes a sample and the
\* interval sleep is made
TakeSample ==
    /\ recon.pc = "sample"
    /\ IF ResultRaises(recon.result)
       THEN recon' = [recon EXCEPT !.pc = "failed"]
       ELSE recon' = [recon EXCEPT
                        !.samples = Append(@, recon.result.value),
                        !.log = IF SleepsBetween(recon.i, recon.cur.samples,
                                                 recon.cur.interval)
                                THEN Append(@, SleepEvent(recon.cur.interval,
                                                          "interval"))
                                ELSE @,
                        !.i = @ + 1,
                        !.attempt = 0,
                        !.pc = IF recon.i + 1 < recon.cur.samples
                               THEN "query" ELSE "aggregate"]

\* _gather_single_metric returns, lines 228-246, and main stores the value
GatherReturn ==
    /\ recon.pc \in {"aggregate", "failed"}
    /\ LET failed == recon.pc = "failed" IN
       recon' = [recon EXCEPT
                   !.pc = "main",
                   !.data = (recon.cur.name :>
                                MetricValue(failed, recon.samples,
                                            recon.cur.aggregation)) @@ @,
                   !.hist = (recon.cur.name :>
                                [failed |-> failed, samples |-> recon.samples,
                                 cfg |-> recon.cur]) @@ @,
                   !.log = << >>]

\* main, lines 167-172
ReconReturn ==
    /\ recon.pc = "main"
    /\ recon.todo = << >>
    /\ recon' = [recon EXCEPT !.pc = "returned", !.status = "completed"]

NextRecon ==
    /\ \/ GatherNext \/ GatherStart \/ QueryAttempt \/ TakeSample
       \/ GatherReturn \/ ReconReturn
    /\ UNCHANGED <<loopVars, call, bindVars, shareVars, client>>

\* one run of the reconnaissance script
SpecRecon == InitRecon /\ [][NextRecon]_vars

\* --------------------------------------------- metrics client: the actions
\* PUSH_METRICS_ENABLED is unset or holds one of these values
EnvValues == {"unset", "true", "True", "false", "FALSE", "0"}

InitClient ==
    /\ OnlySide /\ ShareIdle /\ recon = ReconIdle
    /\ client = [NoClient EXCEPT !.pc = "new"]

\* __init__: the registry and its metrics are created when pushing is enabled
ClientConstruct ==
    /\ client.pc = "new"
    /\ \E env \in EnvValues :
          LET enabled == Enabled(IF env = "unset" THEN "true" ELSE env) IN
          client' = [client EXCEPT !.pc = "ready", !.enabled = enabled,
                                   !.registry = enabled]

\* push
ClientPush ==
    /\ client.pc = "ready"
    /\ client.calls < MaxClientCalls
    /\ \E delivered \in BOOLEAN :
          client' = [client EXCEPT
                       !.calls = @ + 1,
                       !.contacts = IF client.enabled THEN @ + 1 ELSE @,
                       !.gateway = IF ~client.enabled THEN @
                                   ELSE IF delivered THEN "ok" ELSE "failed",
                       !.result = PushResult(client.enabled, delivered)]

\* mark_running
ClientMarkRunning ==
    /\ client.pc = "ready"
    /\ client.calls < MaxClientCalls
    /\ client' = [client EXCEPT
                    !.calls = @ + 1,
                    !.status = IF client.enabled THEN MarkRunning(@) ELSE @]

\* mark_stopped
ClientMarkStopped ==
    /\ client.pc = "ready"
    /\ client.calls < MaxClientCalls
    /\ client' = [client EXCEPT
                    !.calls = @ + 1,
                    !.status = IF client.enabled THEN MarkStopped(@) ELSE @]

\* inc_trial, set_best_value, set_total_trials, observe_trial_duration,
\* inc_effectuation, inc_guardrail_violation, inc_rollback, inc_trial_shared
ClientSample ==
    /\ client.pc = "ready"
    /\ client.calls < MaxClientCalls
    /\ \E m \in SampleMethods :
          client' = [client EXCEPT
                       !.calls = @ + 1,
                       !.written[m] = IF client.enabled THEN @ + 1 ELSE @]

NextClient ==
    /\ \/ ClientConstruct \/ ClientPush \/ ClientMarkRunning
       \/ ClientMarkStopped \/ ClientSample
    /\ UNCHANGED <<loopVars, call, bindVars, shareVars, recon>>

\* one metrics client and the calls made on it, in any order
SpecClient == InitClient /\ [][NextClient]_vars

\* ------------------------------------------------- the worker's functions
\* The functions below are applied to arguments drawn from bounded sets; the
\* variable call records the function, its arguments and its outcome.  A
\* function that raises has the exception's name as outcome.  Each run applies
\* one function once.

\* largest number of trials the study holds when _should_continue is applied
MaxTrialsSeen == 3

\* completion_criteria.get('iterations', {}).get('min', 10)
DefaultMinIterations == 10
\* completion_criteria.get('iterations', {}).get('max', 1000)
DefaultMaxIterations == 1000

DigitChars == <<"0", "1", "2", "3", "4", "5", "6", "7", "8", "9">>

IsDigit(ch) == \E i \in 1..10 : DigitChars[i] = ch

DigitValue(ch) == (CHOOSE i \in 1..10 : DigitChars[i] = ch) - 1

\* the length of the longest prefix of s made of digits: what \d+ consumes
RECURSIVE DigitPrefix(_)
DigitPrefix(s) ==
    IF s = << >> \/ ~IsDigit(Head(s)) THEN 0 ELSE 1 + DigitPrefix(Tail(s))

\* int(value) of a string of digits
RECURSIVE ToInt(_)
ToInt(s) ==
    IF s = << >> THEN 0
    ELSE 10 * ToInt(SubSeq(s, 1, Len(s) - 1)) + DigitValue(s[Len(s)])

\* unit_seconds = {'d': 86400, 'h': 3600, 'm': 60}
UnitSeconds(u) == CASE u = "d" -> 86400 [] u = "h" -> 3600 [] u = "m" -> 60

\* re.match(r'(\d+)([dhm])', end_time_str): anchored at the start only, so
\* whatever follows the unit letter is ignored
MatchEnd(s) ==
    LET k == DigitPrefix(s) IN
    IF k >= 1 /\ Len(s) > k /\ s[k + 1] \in {"d", "h", "m"}
    THEN [matched |-> TRUE, value |-> ToInt(SubSeq(s, 1, k)), unit |-> s[k + 1]]
    ELSE [matched |-> FALSE, value |-> 0, unit |-> "m"]

\* _check_time_budget: elapsed is the wall-clock seconds since creation_ts;
\* aware tells that creation_ts carries a UTC offset (as in
\* 2025-01-15T10:30:00Z), so that self.start_time is an aware datetime and
\* datetime.datetime.now() - self.start_time raises TypeError
CheckTimeBudget(cc, elapsed, aware) ==
    IF cc.end = << >> THEN "False"
    ELSE IF ~MatchEnd(cc.end).matched THEN "False"
    ELSE IF aware THEN "TypeError"
    ELSE IF elapsed >= MatchEnd(cc.end).value * UnitSeconds(MatchEnd(cc.end).unit)
         THEN "True" ELSE "False"

\* one objective against the value the best trial has for it
ThresholdMissed(value, objective) ==
    LET direction == Get(objective, "direction", "minimize") IN
    \/ direction = "minimize" /\ value > objective.quality_threshold
    \/ direction = "maximize" /\ value < objective.quality_threshold

\* _check_quality_thresholds: bestTrials is study.best_trials as the sequence
\* of the trials' value lists
CheckQualityThresholds(objectives, bestTrials) ==
    IF bestTrials = << >> THEN "IndexError"
    ELSE IF objectives = << >> THEN "False"
    ELSE IF \E i \in 1..Len(objectives) :
                "quality_threshold" \notin DOMAIN objectives[i] THEN "False"
    ELSE IF \E i \in 1..Len(objectives) :
                i <= Len(bestTrials[1])
                /\ ThresholdMissed(bestTrials[1][i], objectives[i]) THEN "False"
    ELSE "True"

\* _should_continue with n = len(self.study.trials)
ShouldContinueOutcome(n, cc, elapsed, aware, objectives, bestTrials) ==
    IF n < Get(cc.iterations, "min", DefaultMinIterations) THEN "True"
    ELSE IF n >= Get(cc.iterations, "max", DefaultMaxIterations) THEN "False"
    ELSE LET budget == CheckTimeBudget(cc, elapsed, aware) IN
         IF budget = "TypeError" THEN "TypeError"
         ELSE IF budget = "True" THEN "False"
         ELSE IF cc.quality_achieved
         THEN LET quality == CheckQualityThresholds(objectives, bestTrials) IN
              IF quality = "IndexError" THEN "IndexError"
              ELSE IF quality = "True" THEN "False" ELSE "True"
         ELSE "True"

\* completion_criteria.iterations: min and max each given or left out
IterationMaps ==
    {m \in UNION {[S -> {0, 2, MaxTrialsSeen}] : S \in SUBSET {"min", "max"}} :
        /\ "min" \in DOMAIN m => m["min"] \in {0, 2}
        /\ "max" \in DOMAIN m => m["max"] = MaxTrialsSeen}

\* completion_criteria.timing.end: left out, 1h, 2m, 1h30m, h1
TimingEnds ==
    {<< >>, <<"1", "h">>, <<"2", "m">>, <<"1", "h", "3", "0", "m">>,
     <<"h", "1">>}

CompletionCriteria ==
    [iterations : IterationMaps, end : TimingEnds, quality_achieved : BOOLEAN]

\* seconds since creation_ts at the check
ElapsedSeconds == {0, 120, 3599, 3600}

\* an objective of the configuration, its quality_threshold optional
ObjectiveMaps ==
    [direction : {"minimize", "maximize"}]
        \cup [direction : {"minimize", "maximize"}, quality_threshold : {5}]

\* the objectives of a configuration together with study.best_trials: one
\* objective, or two that both carry a threshold
QualityInputs ==
    {<<os, bt>> \in (([1..1 -> ObjectiveMaps]
                        \cup [1..2 -> {o \in ObjectiveMaps :
                                          "quality_threshold" \in DOMAIN o}])
                     \X ({<< >>} \cup {<<vs>> : vs \in [1..1 -> {4, 5, 6}]
                                                     \cup [1..2 -> {4, 5, 6}]})) :
        bt = << >> \/ Len(bt[1]) = Len(os)}

\* self._should_continue() for a study of n trials
CallShouldContinue ==
    /\ call = NoCall
    /\ \E n \in (0..MaxTrialsSeen) \cup {DefaultMinIterations},
          cc \in CompletionCriteria, elapsed \in ElapsedSeconds,
          aware \in BOOLEAN, q \in QualityInputs :
          call' = [fn |-> "should_continue",
                   args |-> [n |-> n, cc |-> cc, elapsed |-> elapsed,
                             aware |-> aware, objectives |-> q[1],
                             bestTrials |-> q[2]],
                   out |-> ShouldContinueOutcome(n, cc, elapsed, aware,
                                                 q[1], q[2])]
    /\ UNCHANGED <<loopVars, bindVars, sideVars>>

\* ---- _check_guardrails
\* a guardrail of the configuration: limit says what guardrail.get('hard_limit')
\* is: "absent" (None), "text" (a non-empty string) or "number" (hard_limit)
GuardrailNames == {"cpu", "mem"}

GuardrailsOf(name) ==
    {[name |-> name, limit |-> "absent", hard_limit |-> 0],
     [name |-> name, limit |-> "text", hard_limit |-> 0]}
        \cup [name : {name}, limit : {"number"}, hard_limit : {-1, 0, 2}]

\* config.get('guardrails', []): up to two guardrails of distinct names
GuardrailLists ==
    {<< >>}
        \cup {<<g>> : g \in GuardrailsOf("cpu") \cup GuardrailsOf("mem")}
        \cup {<<g, h>> : g \in GuardrailsOf("cpu"), h \in GuardrailsOf("mem")}
        \cup {<<h, g>> : g \in GuardrailsOf("cpu"), h \in GuardrailsOf("mem")}

\* the metrics map of a trial: a value for some of the guardrail names
GuardrailMetrics ==
    UNION {[S -> {-2, 0, 1, 3, Inf}] : S \in SUBSET GuardrailNames}

\* `if not hard_limit`: None and 0 are both falsy
NotHardLimit(g) == g.limit = "absent" \/ (g.limit = "number" /\ g.hard_limit = 0)

\* the body of the loop of _check_guardrails for one guardrail: the
\* violations it appends
GuardrailViolation(g, m) ==
    IF NotHardLimit(g) THEN << >>
    ELSE IF g.name \notin DOMAIN m THEN << >>
    ELSE IF g.limit = "number"
         THEN IF m[g.name] > g.hard_limit
              THEN << [name |-> g.name, value |-> m[g.name],
                       hard_limit |-> g.hard_limit] >>
              ELSE << >>
    ELSE << >>

\* _check_guardrails: the list violations
RECURSIVE Violations(_, _)
Violations(guardrails, m) ==
    IF guardrails = << >> THEN << >>
    ELSE GuardrailViolation(Head(guardrails), m) \o Violations(Tail(guardrails), m)

\* _check_guardrails: (len(violations) > 0, violations)
CheckGuardrailsOutcome(guardrails, m) ==
    [violated |-> Len(Violations(guardrails, m)) > 0,
     violations |-> Violations(guardrails, m)]

\* self._check_guardrails(metrics)
CallCheckGuardrails ==
    /\ call = NoCall
    /\ \E gs \in GuardrailLists, m \in GuardrailMetrics :
          call' = [fn |-> "check_guardrails",
                   args |-> [guardrails |-> gs, metrics |-> m],
                   out |-> CheckGuardrailsOutcome(gs, m)]
    /\ UNCHANGED <<loopVars, bindVars, sideVars>>

\* ---- _execute_trial
MetricNames == {"tput", "lat", "cpu"}

\* config.get('objectives', []) as the list of the objectives' names
ObjectiveLists == {<< >>, <<"tput">>, <<"tput", "lat">>}

\* a metrics map of the effectuation flow's result, {} included
ResultMetrics == UNION {[S -> {1, Inf}] : S \in SUBSET MetricNames}

\* what wmill.run_flow_async / wmill.get_result do: raise, or return a result
\* map with or without the keys status and metrics
FlowOutcomes ==
    {[kind |-> "submit_raises", result |-> << >>],
     [kind |-> "wait_raises", result |-> << >>],
     [kind |-> "returns", result |-> << >>],
     [kind |-> "returns", result |-> [status |-> "completed"]]}
        \cup {[kind |-> "returns", result |-> [metrics |-> m]] :
                 m \in ResultMetrics}
        \cup {[kind |-> "returns",
               result |-> [status |-> "completed", metrics |-> m]] :
                 m \in ResultMetrics}

\* {obj.get('name'): float('inf') for obj in self.config.get('objectives', [])}
PenaltyMap(objectives) ==
    [name \in {objectives[i] : i \in 1..Len(objectives)} |-> Inf]

\* _execute_trial without the `if not metrics` branch
ExecuteTrialKeepsEmpty(flow, objectives) ==
    IF flow.kind \in {"submit_raises", "wait_raises"}
    THEN [raised |-> FALSE, value |-> PenaltyMap(objectives)]
    ELSE [raised |-> FALSE, value |-> Get(flow.result, "metrics", << >>)]

\* _execute_trial: the try block returns the penalty map when
\* result.get('metrics', {}) is empty and the metrics otherwise; the except
\* branch returns the penalty map
ExecuteTrialOutcome(flow, objectives) ==
    IF flow.kind \in {"submit_raises", "wait_raises"}
    THEN [raised |-> FALSE, value |-> PenaltyMap(objectives)]
    ELSE IF Get(flow.result, "metrics", << >>) = << >>
         THEN [raised |-> FALSE, value |-> PenaltyMap(objectives)]
         ELSE [raised |-> FALSE, value |-> flow.result["metrics"]]

\* self._execute_trial(params)
CallExecuteTrial ==
    /\ call = NoCall
    /\ \E flow \in FlowOutcomes, objectives \in ObjectiveLists :
          call' = [fn |-> "execute_trial",
                   args |-> [flow |-> flow, objectives |-> objectives],
                   out |-> ExecuteTrialOutcome(flow, objectives)]
    /\ UNCHANGED <<loopVars, bindVars, sideVars>>

\* ---- CommunicationCallback._should_share_trial
\* longest enumerated list of completed trials
MaxCompleted == 3

\* the first-objective values of the completed trials of the study, in trial
\* order: every short list, and the list 1, 2, ..., 12
CompletedValues ==
    UNION {[1..k -> 1..3] : k \in 0..MaxCompleted} \cup {[i \in 1..12 |-> i]}

\* percentileofscore with kind='strict', times len(a)
PercentileStrictTimesN(a, score) ==
    100 * Cardinality({i \in 1..Len(a) : a[i] < score})

\* scipy.stats.percentileofscore(a, score) with the default kind='rank',
\* times len(a): (left + right + (1 if right > left else 0)) * 50
PercentileTimesN(a, score) ==
    LET left == Cardinality({i \in 1..Len(a) : a[i] < score})
        right == Cardinality({i \in 1..Len(a) : a[i] <= score})
    IN (left + right + (IF right > left THEN 1 ELSE 0)) * 50

\* _should_share_trial: values are the first-objective values of the completed
\* trials, value is trial.values[0] (inf without values), top and bottom are
\* top_percentile * 100 and bottom_percentile * 100, draw is
\* random.random() < self.com_probability
ShouldShareTrial(strategy, minTrials, top, bottom, values, value, draw) ==
    IF strategy = "probabilistic" THEN draw
    ELSE IF Len(values) < minTrials THEN TRUE
    ELSE LET n == Len(values)
             pn == PercentileTimesN(values, value)
         IN CASE strategy = "best" -> pn >= (100 - top) * n
              [] strategy = "worst" -> pn <= bottom * n
              [] strategy = "extremes" ->
                     pn >= (100 - top) * n \/ pn <= bottom * n
              [] OTHER -> TRUE

ShareStrategies == {"probabilistic", "best", "worst", "extremes", "other"}

\* self._should_share_trial(study, trial)
CallShouldShareTrial ==
    /\ call = NoCall
    /\ \E strategy \in ShareStrategies, minTrials \in {1, 3, 10},
          top \in {20, 50}, bottom \in {20, 50}, values \in CompletedValues,
          value \in {1, 2, 3, 12, Inf}, draw \in BOOLEAN :
          /\ strategy # "probabilistic" => draw
          /\ call' = [fn |-> "should_share_trial",
                      args |-> [strategy |-> strategy, minTrials |-> minTrials,
                                top |-> top, bottom |-> bottom,
                                values |-> values, value |-> value,
                                draw |-> draw],
                      out |-> ShouldShareTrial(strategy, minTrials, top, bottom,
                                               values, value, draw)]
    /\ UNCHANGED <<loopVars, bindVars, sideVars>>

\* largest number of samples handed to aggregate_samples
MaxAggregated == 4

\* the samples extract_scalar_value produces: None, inf and finite values
SampleChoices == {NullSample, InfValue, Frac(1, 1), Frac(2, 1), Frac(5, 1)}

SampleLists == UNION {[1..n -> SampleChoices] : n \in 0..MaxAggregated}

AggregationMethods == {"median", "mean", "min", "max", "other"}

\* aggregate_samples(sample_values, aggregation_method)
CallAggregateSamples ==
    /\ call = NoCall
    /\ \E samples \in SampleLists, method \in AggregationMethods :
          call' = [fn |-> "aggregate_samples",
                   args |-> [samples |-> samples, method |-> method],
                   out |-> AggregateSamples(samples, method)]
    /\ UNCHANGED <<loopVars, bindVars, sideVars>>

\* largest run.parallel and largest digest of a worker_id handed to
\* _assign_sampler
MaxParallel == 6
MaxHash == 11

\* self._assign_sampler() in the construction of two workers that have the
\* same worker_id, whose md5 digest is d, and the same run.parallel
CallAssignSampler ==
    /\ call = NoCall
    /\ \E parallel \in 0..MaxParallel, d \in 0..MaxHash :
          call' = [fn |-> "assign_sampler",
                   args |-> [parallel |-> parallel, digest |-> d],
                   out |-> AssignSampler(parallel, d),
                   again |-> AssignSampler(parallel, d)]
    /\ UNCHANGED <<loopVars, bindVars, sideVars>>

\* ------------------------------------------------------------ preflight
\* PARAMETER_REGISTRY: the type of every supported parameter
ParameterRegistry ==
    [name \in {"net.ipv4.tcp_rmem", "net.ipv4.tcp_wmem",
               "net.core.netdev_budget", "net.core.netdev_max_backlog",
               "net.core.dev_weight"} |-> "int"]
    @@ [name \in {"net.ipv4.tcp_congestion_control", "cpu_governor",
                  "transparent_hugepage", "qdisc", "governor"}
           |-> "categorical"]
    @@ [name \in {"min_freq_ghz", "max_freq_ghz"} |-> "float"]

\* ETHTOOL_PARAMS
EthtoolParams ==
    [name \in {"tso", "gro"} |-> "categorical"]
    @@ [name \in {"rx_ring", "tx_ring"} |-> "int"]

\* the categories in the order main walks them
Categories == <<"sysctl", "sysfs", "cpufreq", "ethtool">>

\* largest number of parameters a configuration declares, and of elements of
\* a constraints list
MaxDeclared == 2
MaxConstraints == 2

\* an element of a constraints list: a dict with 'values', a dict with 'step',
\* 'lower' and 'upper', a dict with 'lower' and 'upper' only, or a number
ConstraintElements == {"values", "range", "bounds", "number"}

\* what a parameter's configuration holds under 'constraints': nothing, a
\* value that is not a list, or a list of elements
ConstraintChoices ==
    {[kind |-> k, elems |-> << >>] : k \in {"absent", "scalar"}}
    \cup {[kind |-> "list", elems |-> e] :
            e \in UNION {[1..n -> ConstraintElements] :
                            n \in 0..MaxConstraints}}

\* the parameters the configurations declare
DeclaredNames ==
    [sysctl |-> {"net.core.netdev_budget", "net.ipv4.tcp_congestion_control",
                 "bogus"},
     ethtool |-> {"rx_ring", "tso", "bogus_offload"}]

\* settings.{category}.{name}, settings.ethtool.eth0.{name} for ethtool
Declarations ==
    {[category |-> c, name |-> n, constraints |-> k] :
        c \in {"sysctl"}, n \in DeclaredNames.sysctl, k \in ConstraintChoices}
    \cup {[category |-> c, name |-> n, constraints |-> k] :
        c \in {"ethtool"}, n \in DeclaredNames.ethtool,
        k \in ConstraintChoices}

\* the key that any(...) looks for is in the element c; a number has no `in`
KeysIn(registryType, c) ==
    IF registryType = "categorical" THEN c = "values" ELSE c = "range"

\* any(... for c in constraints): TRUE, FALSE, or "raise" at an element that
\* is not a container when no earlier element matched
RECURSIVE AnyMatches(_, _)
AnyMatches(registryType, elems) ==
    IF elems = << >> THEN "false"
    ELSE IF Head(elems) = "number" THEN "raise"
    ELSE IF KeysIn(registryType, Head(elems)) THEN "true"
    ELSE AnyMatches(registryType, Tail(elems))

\* the registry main consults for the category
RegistryOf(category) ==
    IF category = "ethtool" THEN EthtoolParams ELSE ParameterRegistry

\* main, lines 179-262, for one declared parameter: "ok", the error appended
\* for it, or "raise"
CheckParameter(d) ==
    LET registry == RegistryOf(d.category) IN
    IF d.name \notin DOMAIN registry THEN "unsupported"
    ELSE IF d.constraints.kind = "absent" THEN "missing"
    ELSE IF d.constraints.kind = "scalar" THEN "notalist"
    ELSE LET any == AnyMatches(registry[d.name], d.constraints.elems) IN
         IF any = "raise" THEN "raise"
         ELSE IF any = "true" THEN "ok" ELSE "mismatch"

\* main, lines 163-262: the declarations of one category after the other, in
\* the order of the configuration; errors are the names appended to errors
RECURSIVE Validate(_, _)
Validate(decls, errors) ==
    IF decls = << >> THEN [raised |-> FALSE, errors |-> errors]
    ELSE LET r == CheckParameter(Head(decls)) IN
         IF r = "raise" THEN [raised |-> TRUE, errors |-> errors]
         ELSE Validate(Tail(decls),
                       IF r = "ok" THEN errors
                       ELSE Append(errors, Head(decls).name))

\* the declarations in the order main walks the categories
ByCategory(decls) ==
    SelectSeq(decls, LAMBDA d : d.category = "sysctl")
    \o SelectSeq(decls, LAMBDA d : d.category = "ethtool")

\* preflight.main: entries are the parameters named in the error text
Preflight(decls) ==
    LET v == Validate(ByCategory(decls), << >>) IN
    IF v.raised THEN [result |-> "FAILURE", entries |-> << >>]
    ELSE IF v.errors # << >>
    THEN [result |-> "FAILURE", entries |-> v.errors]
    ELSE [result |-> "SUCCESS", entries |-> << >>]

\* the configurations: up to MaxDeclared parameters of different names, and
\* meta.strict_validation
DeclarationLists ==
    {ds \in UNION {[1..n -> Declarations] : n \in 1..MaxDeclared} :
        \A i, j \in 1..Len(ds) : ds[i].name = ds[j].name => i = j}

\* preflight.main(config)
CallPreflight ==
    /\ call = NoCall
    /\ \E decls \in DeclarationLists, strict \in BOOLEAN :
          call' = [fn |-> "preflight",
                   args |-> [settings |-> decls, strict |-> strict],
                   out |-> Preflight(decls)]
    /\ UNCHANGED <<loopVars, bindVars, sideVars>>

\* ------------------------------------------------------ _suggest_params
\* the settings handed to _suggest_params: parameters of the registries, the
\* ethtool options under one of two interfaces, each with a constraints list
SuggestNames ==
    [sysctl |-> {"net.core.netdev_budget", "net.ipv4.tcp_congestion_control"},
     ethtool |-> {"rx_ring", "tso"}]

SuggestConstraints ==
    {[kind |-> "list", elems |-> e] :
        e \in UNION {[1..n -> {"values", "range", "bounds"}] :
                        n \in 1..MaxConstraints}}

Settings ==
    {[category |-> "sysctl", interface |-> "", name |-> n, constraints |-> k] :
        n \in SuggestNames.sysctl, k \in SuggestConstraints}
    \cup {[category |-> "ethtool", interface |-> i, name |-> n,
           constraints |-> k] :
        i \in {"eth0", "eth1"}, n \in SuggestNames.ethtool,
        k \in SuggestConstraints}

\* a settings dict holds a key once
SettingLists ==
    {ds \in UNION {[1..n -> Settings] : n \in 1..MaxDeclared} :
        \A i, j \in 1..Len(ds) :
            (ds[i].category = ds[j].category
               /\ ds[i].interface = ds[j].interface
               /\ ds[i].name = ds[j].name) => i = j}

\* the values the sampler draws, one for every parameter name of the trial
SuggestedValues == {1, 2}

\* _suggest_single_param: the suggestion it calls, decided from the first
\* element of the constraints list alone, or the error it raises
SuggestSingleParam(constraints) ==
    IF constraints.kind # "list" \/ constraints.elems = << >>
    THEN "ValueError"
    ELSE CASE constraints.elems[1] = "values" -> "suggest_categorical"
           [] constraints.elems[1] = "range"  -> "suggest_number"
           [] constraints.elems[1] = "number" -> "TypeError"
           [] OTHER                           -> "ValueError"

\* _suggest_params, lines 440-443 and 456: the key of the params dict
ParamKey(d) ==
    IF d.category = "ethtool" THEN <<d.interface, "_", d.name>>
    ELSE <<d.name>>

\* nothing suggested yet: params is the dict _suggest_params builds, stored
\* is trial.params as the study keeps it (name given to suggest_* -> value),
\* calls are the suggestions made
NoSuggestion ==
    [raised |-> "none", params |-> {}, stored |-> {}, calls |-> << >>]

\* _suggest_params over the declarations in the order it walks them.  The
\* trial keeps one value per name: a second suggestion under a name returns
\* the stored value when the distribution kind is the same and raises in the
\* study engine when it is not
RECURSIVE SuggestParams(_, _, _)
SuggestParams(decls, vals, acc) ==
    IF decls = << >> THEN acc
    ELSE LET d == Head(decls)
             kind == SuggestSingleParam(d.constraints)
             earlier == {i \in 1..Len(acc.calls) : acc.calls[i].name = d.name}
         IN
         IF d.constraints.kind = "absent"
         THEN SuggestParams(Tail(decls), vals, acc)
         ELSE IF kind \in {"ValueError", "TypeError"}
         THEN [acc EXCEPT !.raised = kind]
         ELSE IF \E i \in earlier : acc.calls[i].kind # kind
         THEN [acc EXCEPT !.raised = "incompatible"]
         ELSE SuggestParams(
                Tail(decls), vals,
                [acc EXCEPT
                   !.params = @ \cup {<<ParamKey(d), vals[d.name]>>},
                   !.stored = @ \cup {<<(<<d.name>>), vals[d.name]>>},
                   !.calls = Append(@, [category |-> d.category,
                                        name |-> d.name, kind |-> kind])])

\* preflight.main and _suggest_params on the same settings; restored is what
\* _execute_rollback re-applies for target_state best when the trial is the
\* best one: study.best_trials[0].params
CallSuggestParams ==
    /\ call = NoCall
    /\ \E decls \in SettingLists,
          vals \in [SuggestNames.sysctl \cup SuggestNames.ethtool
                       -> SuggestedValues] :
          LET out == SuggestParams(ByCategory(decls), vals, NoSuggestion) IN
          call' = [fn |-> "suggest_params",
                   args |-> [settings |-> decls],
                   preflight |-> Preflight(decls).result,
                   out |-> out,
                   restored |-> out.stored]
    /\ UNCHANGED <<loopVars, bindVars, sideVars>>

\* no worker runs while the functions are applied
InitCalls == TypeInit({}) /\ trials = << >> /\ cfg \in PlainConfigs
                /\ cfg.guardrails = 0 /\ cfg.iter_min = 0 /\ BindIdle /\ SideIdle

NextCalls ==
    \/ CallShouldContinue
    \/ CallCheckGuardrails
    \/ CallExecuteTrial
    \/ CallShouldShareTrial
    \/ CallAggregateSamples
    \/ CallAssignSampler
    \/ CallPreflight
    \/ CallSuggestParams

SpecCalls == InitCalls /\ [][NextCalls]_vars

\* ------------------------------------------------------------- properties
Max(S) == CHOOSE x \in S : \A y \in S : x >= y

\* number of contiguous failed trials at the end of ts
TrailingFailed(ts) ==
    Max({k \in 0..Len(ts) :
            \A i \in (Len(ts) - k + 1)..Len(ts) : ts[i].state = "failed"})

\* positions of run() between two trials: from the loop condition to ask()
BetweenTrials ==
    {"loop", "check_rb", "rb_read", "rb_submit", "rb_wait", "after_action", "ask"}

\* the step is the remote apply of a trial's parameters taking effect
TrialApplied == \E i \in 1..Len(trials) : trials[i].apply # "ok" /\ trials'[i].apply = "ok"

\* C1: the write that records a failed trial and brings consecutive_failures
\* to the threshold or above stores state = needs_rollback.
C1_FailureAtThresholdNeedsRollback ==
    (lastWrite.kind = "failure"
        /\ lastWrite.after.consecutive_failures >= cfg.threshold)
    => lastWrite.after.state = "needs_rollback"

\* what C2 says of one step of worker w, the after-action aside: the rollback
\* is entered from the check at the top of the loop exactly when the stored
\* consecutive_failures is at or above the threshold, ask() is reached only
\* past that check, a rollback is under way only at or above the threshold, a
\* successful apply stores completed with the counter at 0 and adds exactly 1
\* to rollbacks_total{success}, which nothing else changes.
C2_Step(w) ==
    /\ (pc[w] = "check_rb" /\ pc'[w] # "check_rb")
          => /\ (attr.consecutive_failures >= cfg.threshold) => pc'[w] = "rb_read"
             /\ (attr.consecutive_failures < cfg.threshold) => pc'[w] = "ask"
    /\ (pc[w] # "ask" /\ pc'[w] = "ask")
          => \/ pc[w] = "check_rb"
             \/ pc[w] = "after_action"
             \/ pc[w] = "loop" /\ ~cfg.rollback_enabled
    /\ (pc[w] \in {"rb_read", "rb_submit", "rb_wait"})
          => attr.consecutive_failures >= cfg.threshold
    /\ (pc[w] = "rb_wait" /\ pc'[w] = "after_action" /\ rbResult'[w])
          => /\ attr'.state = "completed"
             /\ attr'.consecutive_failures = 0
             /\ rollbackCount'[w].success = rollbackCount[w].success + 1
    /\ (rollbackCount'[w].success # rollbackCount[w].success)
          => pc[w] = "rb_wait" /\ pc'[w] = "after_action" /\ rbResult'[w]

\* C2: at or above the threshold the worker executes the rollback before its
\* next ask() and never below it; a successful rollback apply stores completed
\* with consecutive_failures 0 and increments rollbacks_total{success} exactly
\* once; the next trial then starts normally: the worker's next steps are
\* ask() and the trial's parameter suggestion.
C2_NextTrialAlwaysStarts ==
    [][\A w \in Workers :
          /\ C2_Step(w)
          /\ (pc[w] = "after_action" /\ rbResult[w] /\ pc'[w] # "after_action")
                => pc'[w] = "ask"
          /\ (pc[w] = "ask" /\ lastWrite.kind = "rb_completed"
                  /\ lastWrite.by = w /\ pc'[w] # "ask")
                => pc'[w] = "suggest"
      ]_vars

\* a rollback that finds nothing to restore
NothingToRestore ==
    \/ cfg.target_state = "previous" /\ attr.last_successful_params = None
    \/ cfg.target_state = "best" /\ BestTrials(trials) = {}

\* C3: a rollback with nothing to restore ends like a failed apply: the state
\* is written failed (skip_target under on_failure=skip_target), on_failure=stop
\* ends the loop through the rollback's own exception, continue and
\* skip_target go on to the after-action.
C3_NothingToRestoreIsFailure ==
    [][\A w \in Workers :
          (pc[w] = "rb_read" /\ NothingToRestore /\ pc'[w] # "rb_read")
             => /\ attr'.state = IF cfg.on_failure = "skip_target"
                                 THEN "skip_target" ELSE "failed"
                /\ attr'.version = attr.version + 1
                /\ pc'[w] = IF cfg.on_failure = "stop" THEN "outer_except"
                            ELSE "after_action"
      ]_vars

\* C4: with a guardrail configured, a trial whose remote apply raised or
\* returned no metrics is never told complete, and its outcome is never
\* recorded by the success handler.
C4_ApplyFailureFailsTrial ==
    cfg.guardrails > 0
    => /\ \A i \in 1..Len(trials) :
             trials[i].apply = "failed" => trials[i].state # "complete"
       /\ \A w \in Workers :
             pc[w] \in {"hst_read", "hst_write"} => trials[trial[w]].apply = "ok"

\* C5: no exception leaves run() but a rollback failure under on_failure=stop.
C5_OnlyRollbackStopEscapes ==
    \A w \in Workers :
        raised[w] => /\ cfg.on_failure = "stop"
                     /\ lastWrite.kind = "rb_failed"
                     /\ lastWrite.by = w

\* C6: once the stored state is skip_target it stays skip_target and no
\* trial parameters are applied to the target any more.
C6_SkippedTargetNotDriven ==
    [][attr.state = "skip_target"
          => attr'.state = "skip_target" /\ ~TrialApplied]_vars

\* C7: while the remote apply of a rollback is in flight the stored state is
\* in_progress.
C7_InProgressDuringApply ==
    \A w \in Workers : pc[w] = "rb_wait" => attr.state = "in_progress"

\* C8: the stored version never decreases from one write to the next,
\* whatever the interleaving of the workers' read-modify-write sequences.
C8_VersionNeverDecreases ==
    [][attr.state # "absent" => attr'.version >= attr.version]_vars

C10_SuccessResetsState ==
    [][\A w \in Workers :
          (pc[w] = "hst_write" /\ pc'[w] # "hst_write")
             => /\ attr'.consecutive_failures = 0
                /\ attr'.state = "normal"
                /\ attr'.last_successful_params = trials[trial[w]].params
                /\ attr'.last_successful_params \in Params
                /\ attr'.version = attr.version + 1
      ]_vars

\* C10 witness: a success was recorded over a stored needs_rollback state
C10_Witness ==
    /\ lastWrite.kind = "success"
    /\ lastWrite.before.state = "needs_rollback"
    /\ lastWrite.before.consecutive_failures > 0
    /\ attr = lastWrite.after

\* the step in which the remote apply of w's rollback raised
RollbackApplyRaised(w) ==
    /\ pc[w] \in {"rb_submit", "rb_wait"}
    /\ pc'[w] \notin {"rb_submit", "rb_wait"}
    /\ attr'.state # "completed"

\* C11: when the rollback apply raises, on_failure=stop writes failed and
\* re-raises (no further ask()), continue writes failed and skip_target writes
\* skip_target and the loop resumes with the next trial; each time
\* rollbacks_total{failed} is incremented exactly once and
\* consecutive_failures is not reset.
C11_RollbackFailureObeysOnFailure ==
    [][\A w \in Workers :
          /\ RollbackApplyRaised(w)
                => /\ attr'.state = IF cfg.on_failure = "skip_target"
                                    THEN "skip_target" ELSE "failed"
                   /\ attr'.consecutive_failures = attr.consecutive_failures
                   /\ rollbackCount'[w].failed = rollbackCount[w].failed + 1
                   /\ pc'[w] = IF cfg.on_failure = "stop" THEN "outer_except"
                               ELSE "after_action"
          /\ (rollbackCount'[w].failed # rollbackCount[w].failed)
                => RollbackApplyRaised(w)
          /\ (raised[w] \/ pc[w] = "outer_except") => trials' = trials
          /\ (lastWrite.kind = "rb_failed" /\ lastWrite.by = w)
                => /\ (pc[w] = "after_action" /\ pc'[w] # "after_action")
                         => pc'[w] = "ask"
                   /\ (pc[w] = "ask" /\ pc'[w] # "ask") => pc'[w] = "suggest"
      ]_vars

\* C12: the step that applies after.action: stop leaves the loop without
\* sleeping and the worker asks no further trial; pause sleeps once and goes
\* to the next ask(); continue goes to the next ask() without sleeping; the
\* worker sleeps at no other step.
C12_AfterActionDecides ==
    [][\A w \in Workers :
          /\ (pc[w] = "after_action" /\ pc'[w] # "after_action")
                => CASE cfg.after_action = "stop" ->
                            pc'[w] = "finally" /\ slept'[w] = slept[w]
                     [] cfg.after_action = "pause" ->
                            pc'[w] = "ask" /\ slept'[w] = slept[w] + 1
                     [] cfg.after_action = "continue" ->
                            pc'[w] = "ask" /\ slept'[w] = slept[w]
          /\ (slept'[w] # slept[w]) => pc[w] = "after_action"
          /\ (pc[w] = "ask" /\ pc'[w] # "ask") => Len(trials') = Len(trials) + 1
          /\ (pc[w] \in {"finally", "done", "raised"})
                => /\ pc'[w] \in {"finally", "done", "raised"}
                   /\ \A i \in 1..Len(trials') : i > Len(trials)
                         => trials'[i].owner # w
      ]_vars

\* C12 witness: a rollback completed, the worker slept once and asks next
C12_Witness ==
    /\ pc[1] = "ask"
    /\ cfg.after_action = "pause"
    /\ slept[1] = 1
    /\ lastWrite.kind = "rb_completed"
    /\ lastWrite.by = 1

\* positions of run() at which no trial of the worker is under way
NoTrialUnderWay == BetweenTrials \cup {"finally", "done", "raised"}

\* C13: every trial a worker got from ask() has been told by the time the
\* worker is between trials again or has left the loop.
C13_EveryAskedTrialIsTold ==
    \A w \in Workers :
        pc[w] \in NoTrialUnderWay
        => \A i \in 1..Len(trials) :
              trials[i].owner = w => trials[i].state # "running"

\* C14: when run() has returned or raised, the worker status is stopped and
\* the latest push attempt carried it; once the worker is marked stopped it
\* performs no trial action (no ask, no tell, no rollback-state write).
C14_StoppedAndPushedAtExit ==
    [][\A w \in Workers :
          /\ (pc'[w] \in {"done", "raised"})
                => workerStatus'[w] = "stopped" /\ pushed'[w] = "stopped"
          /\ (workerStatus[w] = "stopped")
                => /\ attr' = attr
                   /\ Len(trials') = Len(trials)
                   /\ \A i \in 1..Len(trials) :
                         trials[i].owner = w => trials'[i] = trials[i]
      ]_vars

\* C14 witness: run() raised after a failed rollback under on_failure=stop and
\* the stopped status was pushed
C14_Witness ==
    /\ pc[1] = "raised"
    /\ lastWrite.kind = "rb_failed"
    /\ lastWrite.by = 1
    /\ workerStatus[1] = "stopped"
    /\ pushed[1] = "stopped"

\* timing.end in the format {N}d|h|m: digits and one unit letter, no more
WellFormedEnd(s) == Len(s) >= 2 /\ DigitPrefix(s) = Len(s) - 1
                        /\ s[Len(s)] \in {"d", "h", "m"}

\* the time budget of a well-formed timing.end has been reached
BudgetReached(a) ==
    /\ WellFormedEnd(a.cc.end)
    /\ a.elapsed >= ToInt(SubSeq(a.cc.end, 1, Len(a.cc.end) - 1))
                       * (CASE a.cc.end[Len(a.cc.end)] = "d" -> 86400
                            [] a.cc.end[Len(a.cc.end)] = "h" -> 3600
                            [] a.cc.end[Len(a.cc.end)] = "m" -> 60)

\* quality_achieved is set and every objective has a threshold that the best
\* trial meets
QualityReached(a) ==
    /\ a.cc.quality_achieved
    /\ a.bestTrials # << >>
    /\ \A i \in 1..Len(a.objectives) :
          /\ "quality_threshold" \in DOMAIN a.objectives[i]
          /\ IF a.objectives[i].direction = "minimize"
             THEN a.bestTrials[1][i] <= a.objectives[i].quality_threshold
             ELSE a.bestTrials[1][i] >= a.objectives[i].quality_threshold

\* C15: _should_continue is true below iterations.min; from iterations.min on
\* it is false exactly when the trials have reached iterations.max, or the
\* time budget is reached, or quality_achieved is set and every objective's
\* threshold is met, and true otherwise; with min = 0 and timing.end = 1h a
\* check at or after creation_ts + 3600 s answers false for every trial count.
C15_ShouldContinueDecides ==
    (call.fn = "should_continue"
        /\ (call.args.cc.end = << >> \/ WellFormedEnd(call.args.cc.end)))
    => LET a == call.args
           min == IF "min" \in DOMAIN a.cc.iterations
                  THEN a.cc.iterations["min"] ELSE 10
           max == IF "max" \in DOMAIN a.cc.iterations
                  THEN a.cc.iterations["max"] ELSE 1000
       IN /\ a.n < min => call.out = "True"
          /\ a.n >= min
                => /\ call.out \in {"True", "False"}
                   /\ call.out = "False"
                         <=> (a.n >= max \/ BudgetReached(a)
                                \/ QualityReached(a))
          /\ (min = 0 /\ a.cc.end = <<"1", "h">> /\ a.elapsed >= 3600)
                => call.out = "False"

\* C16: _check_guardrails reports a violation exactly for the guardrails that
\* have a numeric hard_limit (0 and negative limits included) and a metric
\* value above it, one violation each, in configuration order; the result is
\* violated exactly when there is such a guardrail.
C16_GuardrailsExceedingNumericLimit ==
    call.fn = "check_guardrails"
    => LET m == call.args.metrics
           Exceeds(g) == /\ g.limit = "number"
                         /\ g.name \in DOMAIN m
                         /\ m[g.name] > g.hard_limit
           expected == SelectSeq(call.args.guardrails, Exceeds)
           found == call.out.violations
       IN /\ call.out.violated <=> expected # << >>
          /\ Len(found) = Len(expected)
          /\ \A i \in 1..Len(found) : found[i].name = expected[i].name

\* the flow raised, or its result holds no metrics or an empty metrics map
NoMetricsReturned(flow) ==
    \/ flow.kind # "returns"
    \/ "metrics" \notin DOMAIN flow.result
    \/ DOMAIN flow.result["metrics"] = {}

\* C17: _execute_trial never raises; when the flow's submission or its result
\* wait raises, or the result has no or empty metrics, it returns the map of
\* every objective to +inf, and otherwise the flow's metrics map unchanged.
C17_ExecuteTrialNeverRaises ==
    call.fn = "execute_trial"
    => LET flow == call.args.flow
           names == {call.args.objectives[i] :
                        i \in 1..Len(call.args.objectives)}
       IN /\ ~call.out.raised
          /\ NoMetricsReturned(flow)
                => /\ DOMAIN call.out.value = names
                   /\ \A n \in names : call.out.value[n] = Inf
          /\ ~NoMetricsReturned(flow)
                => call.out.value = flow.result["metrics"]

\* C17 witness: the flow returned an empty metrics map and the two objectives
\* got the penalty
C17_Witness ==
    /\ call.fn = "execute_trial"
    /\ call.args.flow.kind = "returns"
    /\ "metrics" \in DOMAIN call.args.flow.result
    /\ DOMAIN call.args.flow.result["metrics"] = {}
    /\ call.args.objectives = <<"tput", "lat">>
    /\ call.out.value = [n \in {"tput", "lat"} |-> Inf]

\* 100 times the rank of value among values, ties sharing the mean rank:
\* the percentile times the number of values
RankTimes100(values, value) ==
    LET below == Cardinality({i \in 1..Len(values) : values[i] < value})
        same == Cardinality({i \in 1..Len(values) : values[i] = value})
    IN IF same = 0 THEN 100 * below ELSE 100 * below + 50 * (same + 1)

\* C20: with at least min_trials_for_filtering completed trials, best shares
\* exactly when the trial's rank percentile among the completed trials is at
\* least 100 - 100 * top_percentile, worst exactly when it is at most
\* 100 * bottom_percentile, extremes exactly when either holds; with fewer
\* completed trials best, worst and extremes share; of the values 1..12 with
\* top_percentile 0.2, best does not share the value 2 and shares the value 12.
C20_ShareByPercentile ==
    (call.fn = "should_share_trial"
        /\ call.args.strategy \in {"best", "worst", "extremes"})
    => LET a == call.args
           n == Len(a.values)
           high == RankTimes100(a.values, a.value) >= (100 - a.top) * n
           low == RankTimes100(a.values, a.value) <= a.bottom * n
       IN /\ n < a.minTrials => call.out
          /\ (n >= a.minTrials /\ a.strategy = "best") => (call.out <=> high)
          /\ (n >= a.minTrials /\ a.strategy = "worst") => (call.out <=> low)
          /\ (n >= a.minTrials /\ a.strategy = "extremes")
                => (call.out <=> (high \/ low))
          /\ (a.strategy = "best" /\ a.top = 20 /\ n = 12 /\ a.values[12] = 12)
                => /\ a.value = 2 => ~call.out
                   /\ a.value = 12 => call.out

\* C20 witness: best with top_percentile 0.2 over the values 1..12 and the
\* default min_trials_for_filtering shares the value 12
C20_Witness ==
    /\ call.fn = "should_share_trial"
    /\ call.args.strategy = "best"
    /\ call.args.minTrials = 10
    /\ call.args.top = 20
    /\ Len(call.args.values) = 12
    /\ call.args.value = 12
    /\ call.out

\* C18: a worker that loads the rollback state of its target gets the state
\* that was last written for that target by any worker of the breeder,
\* whichever sampler the workers were assigned.
C18_WorkersShareRollbackState ==
    [][\A w \in Workers :
          (binder[w].pc = "ready" /\ binder'[w].pc = "loaded")
             => binder'[w].loaded = Get(lastStored, binder[w].target, NoAttr)
      ]_vars

\* C19: binding never fails, whatever the interleaving of the workers' loads
\* and creates; a worker that is bound is bound to the study of the name it
\* derived, and a study that exists keeps its trials.
C19_LoadOrCreateAlwaysBinds ==
    [][/\ \A w \in Workers :
             /\ binder'[w].pc # "failed"
             /\ binder'[w].pc \in {"bound", "init", "ready", "loaded"}
                   => /\ binder'[w].study = StudyKey(binder[w])
                      /\ binder'[w].study \in DOMAIN studies'
       /\ \A k \in DOMAIN studies :
             k \in DOMAIN studies' /\ studies'[k].trials = studies[k].trials
      ]_vars

\* the number of add_trial attempts the invocation made on the study
AttemptsOn(w, name) ==
    Cardinality({i \in 1..Len(cb[w].attempts) : cb[w].attempts[i] = name})

\* _share_trial has come to its end
ShareEnded(w) ==
    \/ cb[w].pc = "returned"
    \/ cb[w].pc = "loop" /\ cb[w].names = << >>

\* a peer of the worker's study: another study of the storage, not one whose
\* name starts with the current study's prefix when share_within_breeder is off
IsPeer(w, name) ==
    /\ name \in DOMAIN store
    /\ name # cb[w].study
    /\ cb[w].within \/ ~StartsWith(name, BreederPrefix(cb[w].study))

\* C21: an invocation of the cooperation callback that decided to share has,
\* when it ends, made exactly one add_trial attempt on every peer study and
\* none on any other study, whether or not attempts failed
C21_OneAttemptPerPeer ==
    \A w \in Workers :
        (cb[w].decided /\ ShareEnded(w))
           => \A name \in StudyNames :
                 AttemptsOn(w, name) = IF IsPeer(w, name) THEN 1 ELSE 0

CountLess(data, x) == Cardinality({j \in 1..Len(data) : Less(data[j], x)})
CountNotAbove(data, x) == Cardinality({j \in 1..Len(data) : ~Less(x, data[j])})

\* x is the k-th smallest of the samples
IsRank(data, x, k) ==
    /\ \E j \in 1..Len(data) : data[j] = x
    /\ CountLess(data, x) < k
    /\ CountNotAbove(data, x) >= k

\* out is the reduction of the samples by the method; it is stated by ranks
\* and sums, which do not depend on the order of the samples
IsReduction(data, method, out) ==
    LET n == Len(data) IN
    CASE method = "min" -> IsRank(data, out, 1)
      [] method = "max" -> IsRank(data, out, n)
      [] method = "mean" ->
            LET t == SumOf(data) IN out.n * t.d * n = t.n * out.d
      [] OTHER ->
            IF n % 2 = 1 THEN IsRank(data, out, (n + 1) \div 2)
            ELSE \E i, j \in 1..n :
                    /\ IsRank(data, data[i], n \div 2)
                    /\ IsRank(data, data[j], n \div 2 + 1)
                    /\ 2 * out.n * data[i].d * data[j].d
                          = (data[i].n * data[j].d + data[j].n * data[i].d)
                               * out.d

\* C26, as claimed: aggregate_samples returns inf iff every sample is null,
\* and otherwise the reduction of the samples that are not null
C26_AggregateIgnoresNull ==
    call.fn = "aggregate_samples" =>
        LET kept == SelectSeq(call.args.samples, LAMBDA x : x # NullSample) IN
        /\ call.out = InfValue <=> kept = << >>
        /\ kept # << >> => IsReduction(kept, call.args.method, call.out)

\* C26, amended: aggregate_samples returns inf iff every sample is null or
\* inf, and otherwise the reduction of the samples that are neither
C26_AggregateIgnoresNullAndInf ==
    call.fn = "aggregate_samples" =>
        LET kept == SelectSeq(call.args.samples,
                              LAMBDA x : x # NullSample /\ x # InfValue) IN
        /\ call.out = InfValue <=> kept = << >>
        /\ kept # << >> => IsReduction(kept, call.args.method, call.out)

\* samples with a null, an inf and two different finite values are reduced
C26_Witness ==
    /\ call.fn = "aggregate_samples"
    /\ call.args.method = "max"
    /\ \E i, j, k, l \in 1..Len(call.args.samples) :
          /\ call.args.samples[i] = NullSample
          /\ call.args.samples[j] = InfValue
          /\ call.args.samples[k] = Frac(2, 1)
          /\ call.args.samples[l] = Frac(5, 1)
    /\ call.out = Frac(5, 1)

\* the custom_query of the event returned a result
Returned(e) == e.ev = "query" /\ e.kind \notin {"retryable", "error"}

\* C23: of the queries of one prometheus_query_with_retry call at most three
\* are made; nothing of the call follows an attempt that returned; the first
\* retryable failure is followed by a sleep of 5 s and the second by one of
\* 10 s, each then by the next attempt; the third retryable failure and any
\* other error are followed by the raise alone
C23_RetryWithBackoff ==
    LET log == recon.log IN
    \A p \in 1..Len(log) :
        log[p].ev = "query" =>
            /\ log[p].attempt < 3
            /\ log[p].attempt = 0
                  <=> (p = 1 \/ log[p - 1].kind # "backoff")
            /\ Returned(log[p]) /\ p < Len(log)
                  => /\ log[p + 1].kind \notin {"backoff", "raise"}
                     /\ log[p + 1].ev = "query"
                           => log[p + 1].sample = log[p].sample + 1
            /\ log[p].kind = "retryable" /\ log[p].attempt < 2
                  => /\ p < Len(log)
                     /\ log[p + 1] = SleepEvent(IF log[p].attempt = 0
                                                THEN 5 ELSE 10, "backoff")
                     /\ p + 1 < Len(log)
                           => log[p + 2] = [log[p + 2] EXCEPT
                                               !.ev = "query",
                                               !.sample = log[p].sample,
                                               !.attempt = log[p].attempt + 1]
            /\ (log[p].kind = "retryable" /\ log[p].attempt = 2)
                  \/ log[p].kind = "error"
                  => /\ p + 1 = Len(log)
                     /\ log[p + 1].ev = "raise"

\* a query has failed three times with retryable errors
C23_Witness ==
    \E p \in 1..Len(recon.log) :
        /\ p + 5 = Len(recon.log)
        /\ \A k \in 0..2 : /\ recon.log[p + 2 * k].ev = "query"
                           /\ recon.log[p + 2 * k].kind = "retryable"
        /\ recon.log[p + 1].secs = 5
        /\ recon.log[p + 3].secs = 10
        /\ recon.log[p + 5].ev = "raise"

\* what happened, without the bookkeeping of the events
Shape(log) == [k \in 1..Len(log) |-> [ev |-> log[k].ev, secs |-> log[k].secs]]

\* every query of the metric returned a scalar result at the first attempt
AllQueriesSucceeded ==
    \A p \in 1..Len(recon.log) :
        recon.log[p].ev = "query"
           => recon.log[p].kind = "scalar" /\ recon.log[p].attempt = 0

\* C24: when all samples of a metric are taken and every query succeeded, the
\* events were one stabilization sleep if stabilization_seconds > 0, then
\* `samples` queries with a sleep of `interval` between two consecutive ones
\* if interval > 0, and no other sleep
C24_SleepsOnlyBetweenSamples ==
    (recon.pc = "aggregate" /\ AllQueriesSucceeded) =>
        LET c == recon.cur
            q == [ev |-> "query", secs |-> 0]
            pre == IF c.stabilization > 0
                   THEN <<[ev |-> "sleep", secs |-> c.stabilization]>>
                   ELSE << >>
            body == IF c.interval > 0
                    THEN [k \in 1..(2 * c.samples - 1) |->
                             IF k % 2 = 1 THEN q
                             ELSE [ev |-> "sleep", secs |-> c.interval]]
                    ELSE [k \in 1..c.samples |-> q]
        IN Shape(recon.log) = pre \o body

\* three samples were taken with stabilization and interval sleeps
C24_Witness ==
    /\ recon.pc = "aggregate"
    /\ AllQueriesSucceeded
    /\ recon.cur.samples = 3
    /\ recon.cur.interval = 2
    /\ recon.cur.stabilization = 120
    /\ Len(recon.log) = 6

\* the names of the configured objectives and guardrails
ConfiguredMetrics == {recon.config[k].name : k \in 1..Len(recon.config)}

\* C25: main returns status completed and a value for every configured
\* metric: inf for a metric whose gathering failed, and for every other
\* metric the reduction of its own samples (inf without a usable sample)
C25_FailuresArePenalizedPerMetric ==
    recon.pc = "returned" =>
        /\ recon.status = "completed"
        /\ DOMAIN recon.data = ConfiguredMetrics
        /\ \A m \in ConfiguredMetrics :
              LET h == recon.hist[m]
                  kept == SelectSeq(h.samples,
                                    LAMBDA x : x # NullSample /\ x # InfValue)
              IN IF h.failed \/ kept = << >>
                 THEN recon.data[m] = InfValue
                 ELSE IsReduction(kept, h.cfg.aggregation, recon.data[m])

\* the objective failed after a sample was taken and the guardrail was measured
C25_Witness ==
    /\ recon.pc = "returned"
    /\ recon.hist["latency"].failed
    /\ recon.hist["latency"].samples # << >>
    /\ recon.data["latency"] = InfValue
    /\ "cpu" \in DOMAIN recon.data
    /\ recon.data["cpu"] = Frac(5, 1)

WellDeclared(d) ==
    LET registry == IF d.category = "ethtool" THEN EthtoolParams
                    ELSE ParameterRegistry
    IN /\ d.name \in DOMAIN registry
       /\ d.constraints.kind = "list"
       /\ \E i \in 1..Len(d.constraints.elems) :
             d.constraints.elems[i]
                = IF registry[d.name] = "categorical" THEN "values"
                  ELSE "range"

\* C28: preflight returns SUCCESS iff every declared parameter is well
\* declared, and a FAILURE names every parameter that is not
C28_PreflightAggregatesAllErrors ==
    call.fn = "preflight" =>
        LET decls == call.args.settings
            offending == {i \in 1..Len(decls) : ~WellDeclared(decls[i])}
        IN /\ call.out.result = "SUCCESS" <=> offending = {}
           /\ call.out.result \in {"SUCCESS", "FAILURE"}
           /\ \A i \in offending :
                 \E k \in 1..Len(call.out.entries) :
                    call.out.entries[k] = decls[i].name

\* the declaration passes the checks that need no registry: it has a
\* constraints list
StructurallySound(d) == d.constraints.kind = "list"

\* C29: with meta.strict_validation = false a parameter that is not in the
\* registry is not an error: preflight returns SUCCESS when the registered
\* parameters are well declared and the others are structurally sound
C29_PermissiveModeWarnsOnRegistryMiss ==
    (call.fn = "preflight" /\ ~call.args.strict) =>
        LET decls == call.args.settings
            known(d) == d.name \in DOMAIN RegistryOf(d.category)
        IN (\A i \in 1..Len(decls) :
               IF known(decls[i]) THEN WellDeclared(decls[i])
               ELSE StructurallySound(decls[i]))
              => call.out.result = "SUCCESS"

\* C30: the latest push returned true exactly when metrics are enabled and
\* the gateway took it, and false when the gateway call failed; a client
\* with metrics disabled has no registry, has written no status and no
\* sample, and has never contacted the gateway, whatever was called on it
C30_PushIsBestEffort ==
    /\ client.result = "true" <=> (client.enabled /\ client.gateway = "ok")
    /\ client.gateway = "failed" => client.result = "false"
    /\ ~client.enabled =>
          /\ ~client.registry
          /\ client.status = "unset"
          /\ \A m \in SampleMethods : client.written[m] = 0
          /\ client.contacts = 0
          /\ client.gateway = "none"
          /\ client.result \in {"none", "false"}

\* a disabled client has been called four times, a push among them
C30_Witness ==
    /\ client.pc = "ready"
    /\ ~client.enabled
    /\ client.calls = 4
    /\ client.result = "false"
    /\ client.contacts = 0

\* an enabled client's push failed at the gateway and returned false
C30_WitnessEnabled ==
    /\ client.enabled
    /\ client.gateway = "failed"
    /\ client.result = "false"

\* C31: the trial the cooperation callback holds is the trial its worker has
\* just told complete
C31_CallbackGetsOwnTrial ==
    \A w \in Workers :
        cb[w].pc \in {"list", "loop", "returned"} => cb[w].trial = cb[w].own

\* C32: last_successful_params is null or the assignment of a trial of the
\* study whose remote apply returned measured metrics
C32_LastSuccessfulWasApplied ==
    attr.last_successful_params # None
       => \E i \in 1..Len(trials) :
             /\ trials[i].params = attr.last_successful_params
             /\ trials[i].apply = "ok"

\* C33: two workers never both have a rollback apply submitted for the target
\* on the same loaded rollback state, that is with no reset of
\* consecutive_failures between their checks
C33_OneRollbackPerCrossing ==
    ~(pc[1] = "rb_wait" /\ pc[2] = "rb_wait" /\ rs[1] = rs[2])

\* C34: a recorded failure that overwrites a state left by a trial (a failure
\* or a success, no rollback) leaves the persisted consecutive_failures one
\* above what was persisted just before the write, so no update is lost
C34_NoLostUpdate ==
    (lastWrite.kind = "failure"
       /\ lastWrite.before.state \in {"normal", "needs_rollback"})
       => lastWrite.after.consecutive_failures
             = lastWrite.before.consecutive_failures + 1

\* C36: construction of a worker never fails, in particular not on a study
\* without a completed trial
C36_EmptyBestTrialsIsHandled ==
    \A w \in Workers : pc[w] # "init_failed"

\* the suggestion kind that matches a registry type
KindFor(registryType) ==
    IF registryType = "categorical" THEN "suggest_categorical"
    ELSE "suggest_number"

\* C35: settings that preflight accepts are suggested without a
\* constraint-shape ValueError, every parameter with the suggestion kind of
\* its registry type
C35_AcceptedSettingsCanBeSuggested ==
    (call.fn = "suggest_params" /\ call.preflight = "SUCCESS")
       => /\ call.out.raised # "ValueError"
          /\ \A i \in 1..Len(call.out.calls) :
                call.out.calls[i].kind
                   = KindFor(RegistryOf(call.out.calls[i].category)
                                [call.out.calls[i].name])

\* C37: the parameter map a rollback to best re-applies is the map that was
\* applied when the trial ran
C37_BestRollbackReappliesTheTrial ==
    (call.fn = "suggest_params" /\ call.out.raised = "none")
       => call.restored = call.out.params

\* the worker is inside _execute_rollback
InRollback == {"rb_read", "rb_submit", "rb_wait"}

\* C38: the write of a failed rollback leaves consecutive_failures as it was,
\* at or above the threshold; the need for a rollback ends only with the
\* write of a successful trial or of a successful rollback; a worker that
\* finds the need at the top of an iteration enters _execute_rollback; every
\* rollback that does not stop the worker is followed by the after.action,
\* and after it the trial is asked unless the action is stop
C38_FailedRollbackIsRetried ==
    [][\A w \in Workers :
          /\ (lastWrite' # lastWrite /\ lastWrite'.kind = "rb_failed")
                => /\ attr'.consecutive_failures = attr.consecutive_failures
                   /\ NeedsRollback(attr', cfg)
          /\ (NeedsRollback(attr, cfg) /\ ~NeedsRollback(attr', cfg))
                => lastWrite'.kind \in {"success", "rb_completed"}
          /\ (pc[w] = "check_rb" /\ pc'[w] # "check_rb"
                /\ NeedsRollback(attr, cfg))
                => pc'[w] = "rb_read"
          /\ (pc[w] \in InRollback /\ pc'[w] \notin InRollback)
                => \/ pc'[w] = "after_action"
                   \/ cfg.on_failure = "stop" /\ pc'[w] = "outer_except"
          /\ (pc[w] = "after_action" /\ pc'[w] # "after_action")
                => pc'[w] = IF cfg.after_action = "stop" THEN "finally"
                            ELSE "ask"
      ]_vars

\* the worker is in its second rollback after a first one failed, having
\* run a trial in between
C38_Witness ==
    /\ pc[1] = "rb_submit"
    /\ rollbackCount[1].failed = 1
    /\ rollbackCount[1].success = 0
    /\ cfg.on_failure \in {"continue", "skip_target"}
    /\ trialCount[1] + (IF inExcept[1] THEN 1 ELSE 0) >= 1
    /\ \E i \in 1..Len(trials) : trials[i].owner = 1

\* C39: a worker whose _should_continue answers false on iterations.max
\* finds iterations.max trials in its study without those that peers copied
\* in, and a worker whose _should_continue answers false at all finds
\* iterations.min of them
C39_IterationsCountOwnTrials ==
    [][\A w \in Workers :
          (pc[w] = "loop" /\ pc'[w] = "finally")
             => /\ Len(trials) - Cardinality(Copied(trials)) >= cfg.iter_min
                /\ Len(trials) >= cfg.iter_max
                      => Len(trials) - Cardinality(Copied(trials))
                            >= cfg.iter_max
      ]_vars

\* C40: a worker that has entered run() ends: it leaves the loop, the finally
\* block marks it stopped, and run() returns or raises
C40_RunTerminates ==
    \A w \in Workers :
        (pc[w] = "start")
           ~> (pc[w] \in {"done", "raised"} /\ workerStatus[w] = "stopped")

\* run() has returned under iterations.min above iterations.max, after the
\* worker asked trials of its own
C40_Witness ==
    /\ pc[1] = "done"
    /\ workerStatus[1] = "stopped"
    /\ cfg.iter_min > cfg.iter_max
    /\ Len(trials) >= cfg.iter_min
    /\ \E i \in 1..Len(trials) : trials[i].owner = 1

====
